---------------------------- MODULE Spec2Model ----------------------------
(***************************************************************************)
(* A model of the colins.ai website widgets:                               *)
(*   - FraudGraphNetwork (src/src/js/custom/fraud-graph-network.js):       *)
(*     network generation, camera, idle motion, hit-testing;               *)
(*   - DendriteSimulation (src/unnamed/part_000): eased transitions and    *)
(*     the per-frame physics state.                                        *)
(* Real numbers of the program are held as scaled integers; every scale is *)
(* named where it is introduced.  Math.random() is a nondeterministic      *)
(* choice from a small set of the values the draw can produce.             *)
(***************************************************************************)
EXTENDS Integers, Sequences, FiniteSets, TLC

VARIABLES
    \* ---- FraudGraphNetwork: network data ----
    width, height,      \* this.width, this.height (CSS pixels)
    nodes,              \* this.nodes: sequence of node records (index = id + 1)
    edges,              \* this.edges: sequence of edge records, in push order
    muleClusters,       \* this.muleClusters: sequence of sequences of node ids
    pc,                 \* position inside generateNetworkData ("idle" before init, "done" after)
    loc,                \* the locals of generateNetworkData that live across its loops
    \* ---- FraudGraphNetwork: camera ----
    transform,          \* this.transform
    zoomFrom,           \* history: transform.scale when the last zoomToCluster / zoomOut was called
    time,               \* this.time: the frames rendered so far
    \* ---- FraudGraphNetwork: hover ----
    hoveredNode,        \* this.hoveredNode: a node id, or Null
    hoveredEdge,        \* this.hoveredEdge: an index of this.edges, or Null
    pointer,            \* the position of the last mouse event, canvas-relative CSS pixels
    \* ---- FraudGraphNetwork: idle motion and hit-testing, one object each ----
    idleNode,           \* one node of this.nodes: x, y, baseX, baseY, vx, vy
    probe,              \* one edge of findEdgeAtPosition's loop: pointer, endpoints, nearest point
    \* ---- DendriteSimulation ----
    dendrite,           \* the simulation's parameter, transition and physics fields
    \* ---- I18n ----
    i18n,               \* currentLanguage, translations, and one call of t: key and result
    \* ---- Both widgets: the animation loop and the wrapper element ----
    loops,              \* per widget: animationId, the frame callbacks the browser holds, wrapper
    \* ---- I18n: the language of the page ----
    locale,             \* currentLanguage, localStorage, loaded files, calls in flight, the page
    \* ---- digital-twin.js ----
    twin                \* the scripted timeline: mode, position, asset, metrics on show

graphVars == <<width, height, nodes, edges, muleClusters, pc, loc>>
camVars == <<transform, zoomFrom, time>>
hoverVars == <<hoveredNode, hoveredEdge, pointer>>

\* The widget of fraud-graph-network.js
fraudVars == <<graphVars, camVars, hoverVars>>

\* The page around the widgets
pageVars == <<locale, twin>>

otherVars == <<idleNode, probe, dendrite, i18n, loops, pageVars>>

\* Everything generateNetworkData leaves alone
nonGraphVars == <<camVars, hoverVars, otherVars>>

\* Everything but idleNode, but probe, but dendrite, but i18n, but loops
besidesIdle     == <<fraudVars, probe, dendrite, i18n, loops, pageVars>>
besidesProbe    == <<fraudVars, idleNode, dendrite, i18n, loops, pageVars>>
besidesDendrite == <<fraudVars, idleNode, probe, i18n, loops, pageVars>>
besidesI18n     == <<fraudVars, idleNode, probe, dendrite, loops, pageVars>>
besidesLoops    == <<fraudVars, idleNode, probe, dendrite, i18n, pageVars>>
widgetVars      == <<fraudVars, idleNode, probe, dendrite, i18n, loops>>
besidesLocale   == <<widgetVars, twin>>
besidesTwin     == <<widgetVars, locale>>

vars == <<fraudVars, otherVars>>

----------------------------------------------------------------------------
(* Generic helpers *)

Null == 0 - 1           \* JavaScript null for a numeric field (ids and risks are >= 0)

Min(a, b) == IF a < b THEN a ELSE b
Max(a, b) == IF a > b THEN a ELSE b
Abs(a) == IF a < 0 THEN 0 - a ELSE a

\* n / d rounded to the nearest integer, halves away from zero (d > 0)
RoundDiv(n, d) == IF n >= 0 THEN (2 * n + d) \div (2 * d) ELSE 0 - ((2 * (0 - n) + d) \div (2 * d))

\* ceil(n / d) for d > 0
CeilDiv(n, d) == 0 - ((0 - n) \div d)

\* Op(arg) with the argument evaluated once, before the call, as JavaScript
\* evaluates it
ByValue(Op(_), arg) == CHOOSE r \in {Op(v) : v \in {arg}} : TRUE

\* The elements of a finite set of integers as an ascending sequence
RECURSIVE SortedSeq(_)
SortedSeq(S) ==
    IF S = {} THEN <<>>
    ELSE LET m == CHOOSE x \in S : \A y \in S : x <= y
         IN  <<m>> \o SortedSeq(S \ {m})

SeqRange(s) == {s[k] : k \in 1..Len(s)}

\* distance(x1, y1, x2, y2) squared: the code compares distances only, and
\* sqrt is monotone, so d1 < d2 is decided on the squares.
DistSq(x1, y1, x2, y2) == (x2 - x1) * (x2 - x1) + (y2 - y1) * (y2 - y1)

\* cos and sin, times 1000, of an angle given in steps of 30 degrees
Cos1000(a) == <<1000, 866, 500, 0, -500, -866, -1000, -866, -500, 0, 500, 866>>[(a % 12) + 1]
Sin1000(a) == Cos1000(a + 9)

----------------------------------------------------------------------------
(* CONFIG of fraud-graph-network.js *)

MULE_CLUSTERS == 1          \* CONFIG.MULE_CLUSTERS is 3; bounded here
CROSS_EDGE_TRIES == 2       \* the literal 25 of the low/high-risk loop; bounded here
HOVER_RADIUS == 15

\* Canvas sizes getBoundingClientRect() reports, <<width, height>>
CanvasSizes == {<<400, 300>>}

\* Canvas sizes from the usual one down to the empty rectangle; the effective
\* width and height of each have the same sign and are not 0, so that the
\* grid cells are numbers
EverySize == {<<400, 300>>, <<100, 100>>, <<0, 0>>}

\* What the random draws of generateNetworkData are taken from.  Every field
\* is a subset of the values the draw can produce in the code, except
\*   clusterSizes (per cluster), scaled down from NODES_PER_CLUSTER_MIN..MAX = 8..14,
\*   innocentCounts, scaled down from 3..5, and
\*   totalNodes, scaled down from CONFIG.TOTAL_NODES = 500 to a few more than
\*   the clusters can hold.
\* linkShuffles and satShuffles say what array.sort(() => Math.random() - 0.5)
\* may do to the targets: "none" leaves them in order, "reverse" reverses
\* them, "any" puts any of them in front.
\*
\* GenLimits: small fixed clusters, all the variety in the low-risk phases.
GenLimits ==
    [ clusterSizes   |-> <<{3}, {3}, {3}>>,  \* clusterNodeCount
      clusterDists   |-> {80},         \* randomRange(30, 130)
      linkCounts     |-> {2, 3, 4},    \* floor(randomRange(2, 5))
      linkShuffles   |-> {"any"},
      crossCoins     |-> BOOLEAN,      \* Math.random() < 0.8
      innocentCounts |-> {1},          \* floor(randomRange(3, 6))
      innocentAngles |-> {0},          \* Math.random() * 2 pi, in steps of 30 degrees
      innocentDists  |-> {40, 100},    \* randomRange(40, 120)
      satCounts      |-> {2},          \* floor(randomRange(2, 4))
      satAngles      |-> {0},          \* Math.random() * 2 pi, in steps of 30 degrees
      satFar         |-> {TRUE},       \* randomRange(80, ...): its upper end or its lower end
      satLinkCounts  |-> {1},          \* floor(randomRange(1, 4))
      satShuffles    |-> {"none"},
      muleClusters   |-> MULE_CLUSTERS,
      totalNodes     |-> 6 * MULE_CLUSTERS + 2,
      indexDraws     |-> "any",
      lowLinkCounts  |-> {2},          \* floor(randomRange(2, 6))
      jitters        |-> {0} ]         \* randomRange(-0.4, 0.4) of a cell, in tenths

\* WebLimits: a first cluster of six nodes, two links per node taken from
\* either end of the target list, every outcome of the cross-link coins, and
\* no low-risk grid nodes.
WebLimits ==
    [ clusterSizes   |-> <<{6}, {3}, {3}>>,
      clusterDists   |-> {80},
      linkCounts     |-> {2},
      linkShuffles   |-> {"none", "reverse"},
      crossCoins     |-> BOOLEAN,
      innocentCounts |-> {1},
      innocentAngles |-> {0},
      innocentDists  |-> {100},
      satCounts      |-> {2},
      satAngles      |-> {0},
      satFar         |-> {TRUE},
      satLinkCounts  |-> {1},
      satShuffles    |-> {"none", "reverse"},
      muleClusters   |-> MULE_CLUSTERS,
      totalNodes     |-> 5 * MULE_CLUSTERS + 3,
      indexDraws     |-> "any",
      lowLinkCounts  |-> {2},
      jitters        |-> {0} ]

\* One network of MULE_CLUSTERS + 1 clusters, for the camera
CamLimits ==
    [ clusterSizes   |-> <<{3}, {3}, {3}>>,
      clusterDists   |-> {80},
      linkCounts     |-> {2},
      linkShuffles   |-> {"none"},
      crossCoins     |-> {FALSE},
      innocentCounts |-> {1},
      innocentAngles |-> {0},
      innocentDists  |-> {40},
      satCounts      |-> {2},
      satAngles      |-> {0},
      satFar         |-> {TRUE},
      satLinkCounts  |-> {1},
      satShuffles    |-> {"none"},
      muleClusters   |-> MULE_CLUSTERS + 1,
      totalNodes     |-> 6 * (MULE_CLUSTERS + 1),
      indexDraws     |-> "first",
      lowLinkCounts  |-> {2},
      jitters        |-> {0} ]

\* atoRisk draws, in thousandths
AtoIntra     == {100}       \* randomRange(0.05, 0.18)
AtoCross     == {110}       \* randomRange(0.06, 0.16)
AtoSatellite == {90}        \* randomRange(0.04, 0.14)
AtoDiameter  == {50}        \* randomRange(0.03, 0.11)

----------------------------------------------------------------------------
(* Records *)

Node(id, x, y, hr, hub, sat, cid) ==
    [id |-> id, x |-> x, y |-> y, isHighRisk |-> hr, isHub |-> hub,
     isSatellite |-> sat, clusterId |-> cid]

Edge(s, t, hr, ato, cid) ==
    [source |-> s, target |-> t, isHighRisk |-> hr, atoRisk |-> ato, clusterId |-> cid]

\* this.nodes[id]
NodeAt(ns, id) == ns[id + 1]

\* The edgeExists test of generateNetworkData: some edge joins a and b, either way round
EdgeExists(es, a, b) ==
    \E k \in 1..Len(es) :
        \/ (es[k].source = a /\ es[k].target = b)
        \/ (es[k].source = b /\ es[k].target = a)

\* if (!edgeExists) this.edges.push(e)
PushIfAbsent(es, e) == IF EdgeExists(es, e.source, e.target) THEN es ELSE Append(es, e)

\* this.edges.push(e) with no test
PushAlways(es, e) == Append(es, e)

\* for (const target of targets) { ... push ... } with one way of pushing
RECURSIVE PushChecked(_, _, _, _, _, _)
PushChecked(es, src, targets, hr, ato, cid) ==
    IF targets = <<>> THEN es
    ELSE PushChecked(PushIfAbsent(es, Edge(src, Head(targets), hr, ato, cid)),
                     src, Tail(targets), hr, ato, cid)

RECURSIVE PushUnchecked(_, _, _, _, _, _)
PushUnchecked(es, src, targets, hr, ato, cid) ==
    IF targets = <<>> THEN es
    ELSE PushUnchecked(PushAlways(es, Edge(src, Head(targets), hr, ato, cid)),
                       src, Tail(targets), hr, ato, cid)

----------------------------------------------------------------------------
(* Geometry of generateNetworkData *)

isMobile == FALSE                       \* the desktop build: no touch events
padding == IF isMobile THEN 20 ELSE 40
topPadding == IF isMobile THEN 80 ELSE padding

\* clusterPositions[c]
clusterPositions(w, h) ==
    << [x |-> (w * 2) \div 10,  y |-> (h * 35) \div 100],
       [x |-> (w * 8) \div 10,  y |-> (h * 35) \div 100],
       [x |-> (w * 35) \div 100, y |-> (h * 7) \div 10] >>

\* center + (cos(angle), sin(angle)) * dist
Polar(center, a, dist) ==
    [x |-> center.x + RoundDiv(Cos1000(a) * dist, 1000),
     y |-> center.y + RoundDiv(Sin1000(a) * dist, 1000)]


----------------------------------------------------------------------------
(* generateNetworkData, one loop iteration per step *)

Loc0 == [c |-> 0, i |-> 0, j |-> 0, count |-> 0, created |-> 0, clusterNodes |-> <<>>]

\* The first three statements of generateNetworkData
BeginGenerate(L) ==
    /\ nodes' = <<>>
    /\ edges' = <<>>
    /\ muleClusters' = <<>>
    /\ loc' = Loc0
    /\ pc' = IF 0 < L.muleClusters THEN "clusterNodes" ELSE "lowRisk"

\* for (i < clusterNodeCount): the nodes of cluster c; the random angle
\* offset and the +-35 position jitter are drawn as 0
CreateClusterNodes(L) ==
    /\ pc = "clusterNodes"
    /\ \E n \in L.clusterSizes[loc.c + 1] : \E ds \in [1..n -> L.clusterDists] :
         LET center == clusterPositions(width, height)[loc.c + 1]
             first  == Len(nodes)
             new    == [k \in 1..n |->
                          LET p == Polar(center, (12 * (k - 1)) \div n, ds[k])
                          IN  Node(first + k - 1, p.x, p.y, TRUE, k = 1, FALSE, loc.c)]
         IN  /\ nodes' = nodes \o new
             /\ loc' = [loc EXCEPT !.clusterNodes = [k \in 1..n |-> first + k - 1], !.i = 0]
    /\ pc' = "links"
    /\ UNCHANGED <<width, height, edges, muleClusters>>
    /\ UNCHANGED nonGraphVars

\* The sets of targets that slice(0, k) of the shuffled list can hold
ShuffledFront(list, k, shuffle) ==
    LET n == Min(k, Len(list))
    IN  CASE shuffle = "none"    -> {SeqRange(SubSeq(list, 1, n))}
          [] shuffle = "reverse" -> {SeqRange(SubSeq(list, Len(list) - n + 1, Len(list)))}
          [] OTHER               -> {T \in SUBSET SeqRange(list) : Cardinality(T) = n}

\* A linking loop that stops after its first target
LinkFirstTargetOnly(es, id, T, ato, cid) ==
    PushChecked(es, id, SubSeq(SortedSeq(T), 1, 1), TRUE, ato, cid)

\* The pushes of one node's targets, each behind the edgeExists test (the
\* targets are taken in ascending id order)
LinkTargets(es, id, T, ato, cid) == PushChecked(es, id, SortedSeq(T), TRUE, ato, cid)

\* One iteration of "Create complex web connections within the cluster"
LinkNode(L) ==
    /\ pc = "links"
    /\ LET cn     == loc.clusterNodes
           id     == cn[loc.i + 1]
           availableTargets == SelectSeq(cn, LAMBDA t : t # id)
       IN  \E connectionCount \in L.linkCounts : \E ato \in AtoIntra :
           \E shuffle \in L.linkShuffles :
           \E T \in ShuffledFront(availableTargets, connectionCount, shuffle) :
              edges' = LinkTargets(edges, id, T, ato, loc.c)
    /\ IF loc.i + 1 < Len(loc.clusterNodes)
       THEN pc' = "links" /\ loc' = [loc EXCEPT !.i = loc.i + 1]
       ELSE pc' = "crossLinks" /\ loc' = [loc EXCEPT !.i = 0, !.j = 2]
    /\ UNCHANGED <<width, height, nodes, muleClusters>>
    /\ UNCHANGED nonGraphVars

\* The next (i, j) of "for i; for j = i + 2" at or after (i, j); <<>> when the loops are over
RECURSIVE PairFrom(_, _, _)
PairFrom(i, j, n) ==
    IF i >= n THEN <<>>
    ELSE IF j >= n THEN PairFrom(i + 1, i + 3, n)
    ELSE <<i, j>>

\* A cross-connection from a node to itself
CrossLinkLoop(es, a, b, ato, cid) == PushIfAbsent(es, Edge(a, a, TRUE, ato, cid))

CrossLinkEdge(es, a, b, ato, cid) == PushIfAbsent(es, Edge(a, b, TRUE, ato, cid))

\* One (i, j) of the cross-connections; coin is Math.random() < 0.8
CrossLink(L) ==
    /\ pc = "crossLinks"
    /\ LET cn == loc.clusterNodes
           n  == Len(cn)
           at == PairFrom(loc.i, loc.j, n)
       IN  IF at = <<>>
           THEN /\ pc' = "innocentCount"
                /\ UNCHANGED <<edges, loc>>
           ELSE /\ \E coin \in L.crossCoins : \E ato \in AtoCross :
                     edges' = IF coin
                              THEN CrossLinkEdge(edges, cn[at[1] + 1], cn[at[2] + 1], ato, loc.c)
                              ELSE edges
                /\ loc' = [loc EXCEPT !.i = at[1], !.j = at[2] + 1]
                /\ pc' = "crossLinks"
    /\ UNCHANGED <<width, height, nodes, muleClusters>>
    /\ UNCHANGED nonGraphVars

\* const innocentCount = Math.floor(randomRange(3, 6))
DrawInnocentCount(L) ==
    /\ pc = "innocentCount"
    /\ \E n \in L.innocentCounts : loc' = [loc EXCEPT !.count = n, !.i = 0]
    /\ pc' = "innocents"
    /\ UNCHANGED <<width, height, nodes, edges, muleClusters>>
    /\ UNCHANGED nonGraphVars

\* tooCloseToHighRisk
TooCloseToHighRisk(ns, cn, x, y) ==
    \E k \in 1..Len(cn) :
        LET hrNode  == NodeAt(ns, cn[k])
            minDist == IF hrNode.isHub THEN 35 ELSE 20
        IN  DistSq(x, y, hrNode.x, hrNode.y) < minDist * minDist

\* One iteration of the innocent-node loop (the +-25 jitter is drawn as 0)
Innocent(L) ==
    /\ pc = "innocents"
    /\ IF loc.i < loc.count
       THEN /\ \E a \in L.innocentAngles : \E d \in L.innocentDists :
                 LET p == Polar(clusterPositions(width, height)[loc.c + 1], a, d)
                 IN  nodes' = IF TooCloseToHighRisk(nodes, loc.clusterNodes, p.x, p.y)
                              THEN nodes
                              ELSE Append(nodes, Node(Len(nodes), p.x, p.y, FALSE, FALSE, FALSE, Null))
            /\ loc' = [loc EXCEPT !.i = loc.i + 1]
            /\ pc' = "innocents"
       ELSE /\ pc' = "satelliteCount"
            /\ UNCHANGED <<nodes, loc>>
    /\ UNCHANGED <<width, height, edges, muleClusters>>
    /\ UNCHANGED nonGraphVars

\* const satelliteCount = Math.floor(randomRange(2, 4))
DrawSatelliteCount(L) ==
    /\ pc = "satelliteCount"
    /\ \E n \in L.satCounts : loc' = [loc EXCEPT !.count = n, !.i = 0]
    /\ pc' = "satellites"
    /\ UNCHANGED <<width, height, nodes, edges, muleClusters>>
    /\ UNCHANGED nonGraphVars

\* The satellite's position for a direction and a distance draw (far: the
\* upper end of randomRange(80, ...), else its lower end)
SatellitePos(w, h, center, a, far) ==
    LET dirX == Cos1000(a)
        dirY == Sin1000(a)
        maxDistToLeft   == center.x - padding - 30
        maxDistToRight  == w - padding - 30 - center.x
        maxDistToTop    == center.y - padding - 30
        maxDistToBottom == h - padding - 30 - center.y
        m0 == 250
        m1 == IF dirX < 0 THEN Min(m0, (maxDistToLeft * 1000) \div Abs(dirX)) ELSE m0
        m2 == IF dirX > 0 THEN Min(m1, (maxDistToRight * 1000) \div dirX) ELSE m1
        m3 == IF dirY < 0 THEN Min(m2, (maxDistToTop * 1000) \div Abs(dirY)) ELSE m2
        maxSafeDist == IF dirY > 0 THEN Min(m3, (maxDistToBottom * 1000) \div dirY) ELSE m3
        satelliteDist == IF far THEN Max(100, Min(maxSafeDist, 200)) ELSE 80
        satX == center.x + RoundDiv(dirX * satelliteDist, 1000)
        satY == center.y + RoundDiv(dirY * satelliteDist, 1000)
    IN  [x |-> Max(padding + 40, Min(w - padding - 40, satX)),
         y |-> Max(padding + 40, Min(h - padding - 40, satY))]

\* "Connect satellite to 1-3 nodes in the main cluster": pushed with no edgeExists test
SatelliteEdges(es, id, T, ato, cid) == PushUnchecked(es, id, SortedSeq(T), TRUE, ato, cid)

\* clusterNodes.filter(n => !n.isSatellite)
MainClusterNodes(ns, cn) == SelectSeq(cn, LAMBDA id : ~NodeAt(ns, id).isSatellite)

\* One iteration of the satellite loop; after the last one, muleClusters.push
Satellite(L) ==
    /\ pc = "satellites"
    /\ IF loc.i < loc.count
       THEN /\ \E a \in L.satAngles : \E far \in L.satFar : \E k \in L.satLinkCounts :
               \E ato \in AtoSatellite : \E shuffle \in L.satShuffles :
                 LET p     == SatellitePos(width, height, clusterPositions(width, height)[loc.c + 1], a, far)
                     id    == Len(nodes)
                     ns    == Append(nodes, Node(id, p.x, p.y, TRUE, FALSE, TRUE, loc.c))
                     cn    == Append(loc.clusterNodes, id)
                     mains == MainClusterNodes(ns, cn)
                 IN  \E T \in ShuffledFront(mains, k, shuffle) :
                       /\ nodes' = ns
                       /\ edges' = SatelliteEdges(edges, id, T, ato, loc.c)
                       /\ loc' = [loc EXCEPT !.clusterNodes = cn, !.i = loc.i + 1]
            /\ pc' = "satellites"
            /\ UNCHANGED muleClusters
       ELSE /\ muleClusters' = Append(muleClusters, loc.clusterNodes)
            /\ loc' = [loc EXCEPT !.c = loc.c + 1, !.clusterNodes = <<>>]
            /\ pc' = IF loc.c + 1 < L.muleClusters THEN "clusterNodes" ELSE "lowRisk"
            /\ UNCHANGED <<nodes, edges>>
    /\ UNCHANGED <<width, height>>
    /\ UNCHANGED nonGraphVars

\* gridCols = ceil(sqrt(lowRiskCount * (effectiveWidth / effectiveHeight))):
\* the least g with g * g * effectiveHeight >= lowRiskCount * effectiveWidth
\* (effectiveWidth / effectiveHeight is the same for -effW, -effH)
GridCols(count, effW, effH) ==
    LET aw == IF effH < 0 THEN 0 - effW ELSE effW
        ah == Abs(effH)
    IN  CHOOSE g \in 0..(count * aw + 1) :
            /\ g * g * ah >= count * aw
            /\ \A f \in 0..(g - 1) : f * f * ah < count * aw

\* The candidate position of grid cell i with jitter draws jx, jy (tenths of a cell)
LowRiskCandidate(w, h, count, i, jx, jy) ==
    LET effectiveWidth  == w - padding * 2
        effectiveHeight == h - padding - topPadding
        gridCols == GridCols(count, effectiveWidth, effectiveHeight)
        gridRows == CeilDiv(count, gridCols)
        col == i % gridCols
        row == i \div gridCols
    IN  [x |-> padding + RoundDiv((10 * col + 5 + jx) * effectiveWidth, 10 * gridCols),
         y |-> padding + RoundDiv((10 * row + 5 + jy) * effectiveHeight, 10 * gridRows)]

\* A low-risk count one more than the room the clusters leave
BeginLowRiskOneMore(L) ==
    /\ pc = "lowRisk"
    /\ loc' = [loc EXCEPT !.count = L.totalNodes - Len(nodes) + 1, !.i = 0, !.created = 0]
    /\ pc' = "lowRiskNodes"
    /\ UNCHANGED <<width, height, nodes, edges, muleClusters>>
    /\ UNCHANGED nonGraphVars

\* const lowRiskCount = CONFIG.TOTAL_NODES - highRiskCount
BeginLowRisk(L) ==
    /\ pc = "lowRisk"
    /\ loc' = [loc EXCEPT !.count = L.totalNodes - Len(nodes), !.i = 0, !.created = 0]
    /\ pc' = "lowRiskNodes"
    /\ UNCHANGED <<width, height, nodes, edges, muleClusters>>
    /\ UNCHANGED nonGraphVars

\* One iteration of the low-risk node loop, or its exit
LowRiskNode(L) ==
    /\ pc = "lowRiskNodes"
    /\ IF 10 * loc.i < 13 * loc.count /\ loc.created < loc.count
       THEN /\ \E jx \in L.jitters : \E jy \in L.jitters :
                 LET p == LowRiskCandidate(width, height, loc.count, loc.i, jx, jy)
                     cps == clusterPositions(width, height)
                     tooCloseToCluster ==
                         \E k \in 1..Len(cps) : DistSq(p.x, p.y, cps[k].x, cps[k].y) < 35 * 35
                     outside ==
                         \/ p.x < padding \/ p.x > width - padding
                         \/ p.y < padding \/ p.y > height - padding
                 IN  IF tooCloseToCluster \/ outside
                     THEN UNCHANGED nodes /\ loc' = [loc EXCEPT !.i = loc.i + 1]
                     ELSE /\ nodes' = Append(nodes, Node(Len(nodes), p.x, p.y, FALSE, FALSE, FALSE, Null))
                          /\ loc' = [loc EXCEPT !.i = loc.i + 1, !.created = loc.created + 1]
            /\ pc' = "lowRiskNodes"
       ELSE /\ pc' = "lowRiskLinks"
            /\ loc' = [loc EXCEPT !.i = 0]
            /\ UNCHANGED nodes
    /\ UNCHANGED <<width, height, edges, muleClusters>>
    /\ UNCHANGED nonGraphVars

\* this.nodes.filter(n => !n.isHighRisk) and this.nodes.filter(n => n.isHighRisk), as id sequences
RECURSIVE FilterIds(_, _, _)
FilterIds(ns, k, hr) ==
    IF k > Len(ns) THEN <<>>
    ELSE (IF ns[k].isHighRisk = hr THEN <<ns[k].id>> ELSE <<>>) \o FilterIds(ns, k + 1, hr)

lowRiskNodesOf(ns) == FilterIds(ns, 1, FALSE)
highRiskNodesOf(ns) == FilterIds(ns, 1, TRUE)

\* nearbyNodes sorted by distance to node (Array.prototype.sort is stable)
SortByDistance(ns, node, ids) ==
    LET d(k) == DistSq(node.x, node.y, NodeAt(ns, ids[k]).x, NodeAt(ns, ids[k]).y)
        before(k) == {q \in 1..Len(ids) : d(q) < d(k) \/ (d(q) = d(k) /\ q < k)}
    IN  [r \in 1..Len(ids) |-> ids[CHOOSE k \in 1..Len(ids) : Cardinality(before(k)) = r - 1]]

NearbyNodes(ns, node, low) ==
    SelectSeq(low, LAMBDA id :
        id # node.id /\ DistSq(node.x, node.y, NodeAt(ns, id).x, NodeAt(ns, id).y) < 120 * 120)

ProximityEdges(es, id, targets) == PushChecked(es, id, targets, FALSE, Null, Null)

\* One iteration of the proximity-link loop over lowRiskNodes, or its exit
LowRiskLink(L) ==
    /\ pc = "lowRiskLinks"
    /\ \E low \in {lowRiskNodesOf(nodes)} :
           IF loc.i < Len(low)
           THEN /\ \E connectionCount \in L.lowLinkCounts :
                   \E node \in {NodeAt(nodes, low[loc.i + 1])} :
                   \E nearbyNodes \in {NearbyNodes(nodes, node, low)} :
                   \E sorted \in {SortByDistance(nodes, node, nearbyNodes)} :
                     LET targets == SubSeq(sorted, 1, Min(connectionCount, Len(sorted)))
                     IN  edges' = ProximityEdges(edges, node.id, targets)
                /\ loc' = [loc EXCEPT !.i = loc.i + 1]
                /\ pc' = "lowRiskLinks"
           ELSE /\ pc' = "longRange"
                /\ loc' = [loc EXCEPT !.i = 0]
                /\ UNCHANGED edges
    /\ UNCHANGED <<width, height, nodes, muleClusters>>
    /\ UNCHANGED nonGraphVars

\* Math.floor(Math.random() * n) + 1, as the set of indices the draw may give
RandomIndex(L, n) == IF L.indexDraws = "first" THEN {1} ELSE 1..n

LongRangeEdge(es, a, b) == PushIfAbsent(es, Edge(a, b, FALSE, Null, Null))

\* One iteration of "for (i < lowRiskNodes.length * 0.12)", or its exit
LongRange(L) ==
    /\ pc = "longRange"
    /\ LET low == lowRiskNodesOf(nodes)
       IN  IF 100 * loc.i < 12 * Len(low)
           THEN /\ \E a \in RandomIndex(L, Len(low)) : \E b \in RandomIndex(L, Len(low)) :
                     edges' = IF low[a] # low[b] THEN LongRangeEdge(edges, low[a], low[b]) ELSE edges
                /\ loc' = [loc EXCEPT !.i = loc.i + 1]
                /\ pc' = "longRange"
           ELSE /\ pc' = "crossEdges"
                /\ loc' = [loc EXCEPT !.i = 0]
                /\ UNCHANGED edges
    /\ UNCHANGED <<width, height, nodes, muleClusters>>
    /\ UNCHANGED nonGraphVars

\* The push of the low/high-risk loop: no edgeExists test in the code
FalseConnection(es, lowId, highId) == PushAlways(es, Edge(lowId, highId, FALSE, Null, Null))

\* One iteration of "for (i < 25)": a random low-risk and a random high-risk
\* node (undefined when the list is empty), joined when closer than 150
CrossEdge(L) ==
    /\ pc = "crossEdges"
    /\ LET low  == lowRiskNodesOf(nodes)
           high == highRiskNodesOf(nodes)
       IN  IF loc.i < CROSS_EDGE_TRIES
           THEN /\ IF low = <<>> \/ high = <<>>
                   THEN UNCHANGED edges
                   ELSE \E a \in RandomIndex(L, Len(low)) : \E b \in RandomIndex(L, Len(high)) :
                          LET lowRisk  == NodeAt(nodes, low[a])
                              highRisk == NodeAt(nodes, high[b])
                          IN  edges' = IF DistSq(lowRisk.x, lowRisk.y, highRisk.x, highRisk.y) < 150 * 150
                                       THEN FalseConnection(edges, lowRisk.id, highRisk.id)
                                       ELSE edges
                /\ loc' = [loc EXCEPT !.i = loc.i + 1]
                /\ pc' = "crossEdges"
           ELSE /\ pc' = "diameter"
                /\ loc' = [loc EXCEPT !.c = 0]
                /\ UNCHANGED edges
    /\ UNCHANGED <<width, height, nodes, muleClusters>>
    /\ UNCHANGED nonGraphVars

\* The first two members of the cluster, whatever their distance
FirstPair(ns, cn) == <<cn[1], cn[2]>>

\* "Find the two nodes furthest apart in this cluster": the first pair, in
\* loop order, whose distance is the greatest and > 0; <<>> when there is none
FarthestPair(ns, cn) ==
    LET pairs == {p \in (1..Len(cn)) \X (1..Len(cn)) : p[1] < p[2]}
        d(p) == DistSq(NodeAt(ns, cn[p[1]]).x, NodeAt(ns, cn[p[1]]).y,
                       NodeAt(ns, cn[p[2]]).x, NodeAt(ns, cn[p[2]]).y)
        best == {p \in pairs : d(p) > 0 /\ \A q \in pairs : d(q) <= d(p)}
    IN  IF best = {} THEN <<>>
        ELSE LET f == CHOOSE p \in best : \A q \in best :
                         p[1] < q[1] \/ (p[1] = q[1] /\ p[2] <= q[2])
             IN  <<cn[f[1]], cn[f[2]]>>

DiameterEdge(es, ns, a, b, ato) == PushIfAbsent(es, Edge(a, b, TRUE, ato, NodeAt(ns, a).clusterId))

\* One iteration of "for (const clusterNodes of this.muleClusters)", or the return
Diameter ==
    /\ pc = "diameter"
    /\ IF loc.c < Len(muleClusters)
       THEN /\ \E cn \in {muleClusters[loc.c + 1]} :
               \E f \in {IF Len(cn) >= 2 THEN FarthestPair(nodes, cn) ELSE <<>>} :
                   \E ato \in AtoDiameter :
                     edges' = IF f = <<>> THEN edges ELSE DiameterEdge(edges, nodes, f[1], f[2], ato)
            /\ loc' = [loc EXCEPT !.c = loc.c + 1]
            /\ pc' = "diameter"
       ELSE /\ pc' = "done"
            /\ loc' = Loc0
            /\ UNCHANGED edges
    /\ UNCHANGED <<width, height, nodes, muleClusters>>
    /\ UNCHANGED nonGraphVars

\* generateNetworkData with its draws taken from L
Generate(L) ==
    \/ CreateClusterNodes(L)
    \/ LinkNode(L)
    \/ CrossLink(L)
    \/ DrawInnocentCount(L)
    \/ Innocent(L)
    \/ DrawSatelliteCount(L)
    \/ Satellite(L)
    \/ BeginLowRisk(L)
    \/ LowRiskNode(L)
    \/ LowRiskLink(L)
    \/ LongRange(L)
    \/ CrossEdge(L)
    \/ Diameter

----------------------------------------------------------------------------
(* Camera: transform, taps and the zoom animation *)

ZOOM_LEVEL    == 2
ZOOM_DURATION == 800

\* transform.scale, x, y and their targets are held in units of 1/1024
\* (of a scale step, of a CSS pixel); transform.zoomProgress is held in
\* milliseconds of ZOOM_DURATION, so the code's progress is zoomProgress / ZOOM_DURATION
U == 2 ^ 10

\* Pointer positions (canvas-relative CSS pixels) and frame deltas (ms)
TapPoints   == {<<120, 105>>, <<200, 150>>, <<320, 105>>}
FrameDeltas == {200, 400, 800}

\* The frames a run may render (this.time grows without limit in the code)
MaxFrames == 4

RECURSIVE GCD(_, _)
GCD(a, b) == IF b = 0 THEN a ELSE GCD(b, a % b)

\* lerp(a, b, t) for t = <<numerator, denominator>>
lerp(a, b, t) == a + RoundDiv((b - a) * t[1], t[2])

\* easeInOutCubic(p / d) as <<numerator, denominator>>:
\* t < 0.5 ? 4 t^3 : 1 - (-2 t + 2)^3 / 2
easeInOutCubic(p, d) ==
    LET g == GCD(p, d)
        a == p \div g
        b == d \div g
    IN  IF 2 * a < b
        THEN <<4 * a * a * a, b * b * b>>
        ELSE <<b * b * b - 4 * (b - a) * (b - a) * (b - a), b * b * b>>

\* The transform of the constructor
Transform0 ==
    [x |-> 0, y |-> 0, scale |-> U, targetScale |-> U, targetX |-> 0, targetY |-> 0,
     zoomProgress |-> 0, isZooming |-> FALSE, focusedCluster |-> Null]

resetTransform(tr) ==
    [tr EXCEPT !.x = 0, !.y = 0, !.scale = U, !.targetX = 0, !.targetY = 0, !.targetScale = U]

\* screenToCanvas, to the nearest CSS pixel
screenToCanvas(tr, screenX, screenY) ==
    [x |-> RoundDiv(screenX * U - tr.x, tr.scale),
     y |-> RoundDiv(screenY * U - tr.y, tr.scale)]

\* A nearest-node scan that leaves out the isHighRisk test
findClosestNode(ns, x, y) ==
    LET d(k) == DistSq(x, y, ns[k].x, ns[k].y)
    IN  IF ns = <<>> THEN Null
        ELSE ns[CHOOSE k \in 1..Len(ns) :
                   /\ \A q \in 1..Len(ns) : d(k) <= d(q)
                   /\ \A q \in 1..(k - 1) : d(q) > d(k)].id

\* findClosestCluster: the id of the first high-risk node, in list order, at
\* the least distance (dist < closestDist); Null when there is no high-risk node
findClosestCluster(ns, x, y) ==
    LET high == highRiskNodesOf(ns)
        d(k) == DistSq(x, y, NodeAt(ns, high[k]).x, NodeAt(ns, high[k]).y)
    IN  IF high = <<>> THEN Null
        ELSE high[CHOOSE k \in 1..Len(high) :
                     /\ \A q \in 1..Len(high) : d(k) <= d(q)
                     /\ \A q \in 1..(k - 1) : d(q) > d(k)]

\* clusterNodes.reduce((sum, n) => sum + n.x, 0) and the same for y, over
\* the nodes of cluster cid from index k on
RECURSIVE ClusterSum(_, _, _)
ClusterSum(ns, k, cid) ==
    IF k > Len(ns) THEN [x |-> 0, y |-> 0, n |-> 0]
    ELSE LET r == ClusterSum(ns, k + 1, cid)
         IN  IF ns[k].clusterId = cid
             THEN [x |-> r.x + ns[k].x, y |-> r.y + ns[k].y, n |-> r.n + 1]
             ELSE r

\* The target offsets of zoomToCluster for cluster cid, reached from node
ClusterCentreOffset(ns, w, h, cid, node) ==
    LET sum     == ClusterSum(ns, 1, cid)
        centerX == IF sum.n > 0 THEN RoundDiv(sum.x * U, sum.n) ELSE node.x * U
        centerY == IF sum.n > 0 THEN RoundDiv(sum.y * U, sum.n) ELSE node.y * U
    IN  [x |-> (w * U) \div 2 - centerX * ZOOM_LEVEL,
         y |-> (h * U) \div 2 - centerY * ZOOM_LEVEL]

zoomToCluster(tr, ns, w, h, node) ==
    LET o == ClusterCentreOffset(ns, w, h, node.clusterId, node)
    IN  [tr EXCEPT !.isZooming = TRUE, !.zoomProgress = 0,
                   !.focusedCluster = node.clusterId,
                   !.targetScale = ZOOM_LEVEL * U,
                   !.targetX = o.x, !.targetY = o.y]

\* A zoomOut that leaves the target offsets as they are
zoomOutScaleOnly(tr) ==
    [tr EXCEPT !.isZooming = TRUE, !.zoomProgress = 0, !.focusedCluster = Null,
               !.targetScale = U]

zoomOut(tr) ==
    [tr EXCEPT !.isZooming = TRUE, !.zoomProgress = 0, !.focusedCluster = Null,
               !.targetScale = U, !.targetX = 0, !.targetY = 0]

\* The body handleClick and handleTouchStart share, for a pointer at (x, y)
Tap(x, y) ==
    IF transform.focusedCluster # Null
    THEN /\ transform' = zoomOut(transform)
         /\ zoomFrom' = transform.scale
         /\ hoveredNode' = Null
         /\ hoveredEdge' = Null
    ELSE LET canvasPos      == screenToCanvas(transform, x, y)
             closestCluster == findClosestCluster(nodes, canvasPos.x, canvasPos.y)
         IN  /\ IF closestCluster # Null
                THEN /\ transform' = zoomToCluster(transform, nodes, width, height,
                                                   NodeAt(nodes, closestCluster))
                     /\ zoomFrom' = transform.scale
                ELSE UNCHANGED <<transform, zoomFrom>>
             /\ UNCHANGED <<hoveredNode, hoveredEdge>>

handleClick ==
    /\ pc = "done"
    /\ \E pt \in TapPoints : Tap(pt[1], pt[2])
    /\ UNCHANGED <<graphVars, time, pointer, otherVars>>

\* e.touches.length is 1 (a tap) or more (ignored)
handleTouchStart ==
    /\ pc = "done"
    /\ \E touches \in {1, 2} :
          IF touches = 1
          THEN \E pt \in TapPoints : Tap(pt[1], pt[2])
          ELSE UNCHANGED <<transform, zoomFrom, hoveredNode, hoveredEdge>>
    /\ UNCHANGED <<graphVars, time, pointer, otherVars>>

\* A zoom whose last frame ends the animation without blending to the target
updateZoomCutShort(tr, deltaTime) ==
    IF tr.isZooming /\ tr.zoomProgress + deltaTime >= ZOOM_DURATION
    THEN [tr EXCEPT !.zoomProgress = ZOOM_DURATION, !.isZooming = FALSE]
    ELSE IF tr.isZooming
    THEN LET t == easeInOutCubic(tr.zoomProgress + deltaTime, ZOOM_DURATION)
         IN  [tr EXCEPT !.zoomProgress = tr.zoomProgress + deltaTime,
                        !.scale = lerp(tr.scale, tr.targetScale, t),
                        !.x = lerp(tr.x, tr.targetX, t),
                        !.y = lerp(tr.y, tr.targetY, t)]
    ELSE tr

\* The zoom part of update(deltaTime), one frame
updateZoom(tr, deltaTime) ==
    IF tr.isZooming
    THEN LET p        == tr.zoomProgress + deltaTime
             finished == p >= ZOOM_DURATION
             progress == IF finished THEN ZOOM_DURATION ELSE p
             t        == easeInOutCubic(progress, ZOOM_DURATION)
         IN  [tr EXCEPT !.zoomProgress = progress,
                        !.isZooming = ~finished,
                        !.scale = lerp(tr.scale, tr.targetScale, t),
                        !.x = lerp(tr.x, tr.targetX, t),
                        !.y = lerp(tr.y, tr.targetY, t)]
    ELSE tr

\* animate(): one frame of the running widget, deltaTime drawn from Deltas
\* (the node motion of update() is modelled on its own below)
animateFrames(Deltas) ==
    /\ pc = "done"
    /\ time < MaxFrames
    /\ time' = time + 1
    /\ \E deltaTime \in Deltas : transform' = updateZoom(transform, deltaTime)
    /\ UNCHANGED <<graphVars, zoomFrom, hoverVars, otherVars>>

animate == animateFrames(FrameDeltas)

\* init(): handleResize() sizes the canvas and resets the transform (no
\* nodes yet), then generateNetworkData()
InitWidgetAt(L, Sizes) ==
    /\ pc = "idle"
    /\ \E size \in Sizes : width' = size[1] /\ height' = size[2]
    /\ BeginGenerate(L)
    /\ transform' = resetTransform(transform)
    /\ UNCHANGED <<zoomFrom, time, hoverVars, otherVars>>

InitWidget(L) == InitWidgetAt(L, CanvasSizes)

\* handleResize() after init: nodes.length > 0, so the network is generated
\* again; then resetTransform()
handleResizeTo(L, Sizes) ==
    /\ pc = "done"
    /\ \E size \in Sizes : width' = size[1] /\ height' = size[2]
    /\ IF Len(nodes) > 0
       THEN BeginGenerate(L)
       ELSE UNCHANGED <<nodes, edges, muleClusters, pc, loc>>
    /\ transform' = resetTransform(transform)
    /\ UNCHANGED <<zoomFrom, time, hoverVars, otherVars>>

handleResize(L) == handleResizeTo(L, CanvasSizes)

----------------------------------------------------------------------------
(* Idle motion: the per-node integrator of update() *)

IDLE_SPEED == 35            \* CONFIG.IDLE_SPEED 0.35, in hundredths

\* Positions and velocities of idleNode are held in units of 1/10000 pixel
Q == 10 ^ 4

maxVel == (15 * Q) \div 10  \* const maxVel = 1.5

\* An integrator without the clamp to maxVel
updateAxisUnclamped(x, base, v, noise) ==
    LET x1 == x + RoundDiv(v * IDLE_SPEED, 100)
        v1 == v + RoundDiv((base - x1) * 8, 1000)
        v2 == RoundDiv((v1 + noise) * 98, 100)
    IN  [x |-> x1, v |-> v2]

\* An integrator whose spring pushes the node away from its rest position
updateAxisPushAway(x, base, v, noise) ==
    LET x1 == x + RoundDiv(v * IDLE_SPEED, 100)
        v1 == v - RoundDiv((base - x1) * 8, 1000)
        v2 == RoundDiv((v1 + noise) * 98, 100)
    IN  [x |-> x1, v |-> Max(0 - maxVel, Min(maxVel, v2))]

\* One coordinate of one node in one frame: float, spring, noise, damping, clamp
updateAxis(x, base, v, noise) ==
    LET x1 == x + RoundDiv(v * IDLE_SPEED, 100)
        v1 == v + RoundDiv((base - x1) * 8, 1000)
        v2 == RoundDiv((v1 + noise) * 98, 100)
    IN  [x |-> x1, v |-> Max(0 - maxVel, Min(maxVel, v2))]

\* The loop body of "for (const node of this.nodes)" for one node
integrate(node, noiseX, noiseY) ==
    LET ax == updateAxis(node.x, node.baseX, node.vx, noiseX)
        ay == updateAxis(node.y, node.baseY, node.vy, noiseY)
    IN  [node EXCEPT !.x = ax.x, !.vx = ax.v, !.y = ay.x, !.vy = ay.v]

\* The loop body for idleNode
updateNode(noiseX, noiseY) ==
    /\ idleNode' = integrate(idleNode, noiseX, noiseY)
    /\ UNCHANGED besidesIdle

\* (Math.random() - 0.5) * 0.05 with the random term set to zero
ZeroNoise == {0}

\* A frame of the idle motion with its noise drawn from N
idleFrame(N) == \E noiseX \in N : \E noiseY \in N : updateNode(noiseX, noiseY)

\* The ends of the range of (Math.random() - 0.5) * 0.05 = [-0.025, 0.025)
NoiseEnds == {0 - 250, 249}

\* update(deltaTime): this.time, the zoom animation, and the idle motion of
\* the node (the loop runs over this.nodes with no condition)
update(Deltas, N) ==
    /\ pc = "done"
    /\ time < MaxFrames
    /\ time' = time + 1
    /\ \E deltaTime \in Deltas : transform' = updateZoom(transform, deltaTime)
    /\ \E noiseX \in N : \E noiseY \in N : idleNode' = integrate(idleNode, noiseX, noiseY)
    /\ UNCHANGED <<graphVars, zoomFrom, hoverVars, probe, dendrite, i18n, loops, pageVars>>

\* Starting displacements from the rest position and starting velocities
IdleOffsetsX    == {0 - 35 * Q, 20 * Q}
IdleOffsetsY    == {35 * Q}
IdleVelocitiesX == {0 - maxVel, (15 * Q) \div 100}
IdleVelocitiesY == {0, maxVel}

IdleNode0 == [x |-> 0, y |-> 0, baseX |-> 0, baseY |-> 0, vx |-> 0, vy |-> 0]

IdleInit ==
    \E ox \in IdleOffsetsX : \E oy \in IdleOffsetsY :
    \E vx \in IdleVelocitiesX : \E vy \in IdleVelocitiesY :
        idleNode = [x |-> 200 * Q + ox, y |-> 150 * Q + oy,
                    baseX |-> 200 * Q, baseY |-> 150 * Q, vx |-> vx, vy |-> vy]

----------------------------------------------------------------------------
(* Hit-testing: the point-to-segment distance of findEdgeAtPosition *)

\* The point of the segment a pointer is measured against, with the
\* projection clamp for param > 1 left out
NearestOnSegmentUnclamped(px, py, sx, sy, tx, ty) ==
    LET A == px - sx
        B == py - sy
        C == tx - sx
        D == ty - sy
        dot   == A * C + B * D
        lenSq == C * C + D * D
    IN  IF lenSq = 0 \/ dot < 0
        THEN [x |-> sx, y |-> sy, den |-> 1]
        ELSE [x |-> sx * lenSq + dot * C, y |-> sy * lenSq + dot * D, den |-> lenSq]

\* (xx, yy) of findEdgeAtPosition as the fraction (x / den, y / den):
\* param = -1 when lenSq = 0, else dot / lenSq; param < 0 is dot < 0 and
\* param > 1 is dot > lenSq
NearestOnSegment(px, py, sx, sy, tx, ty) ==
    LET A == px - sx
        B == py - sy
        C == tx - sx
        D == ty - sy
        dot   == A * C + B * D
        lenSq == C * C + D * D
    IN  IF lenSq = 0 \/ dot < 0
        THEN [x |-> sx, y |-> sy, den |-> 1]
        ELSE IF dot > lenSq
        THEN [x |-> tx, y |-> ty, den |-> 1]
        ELSE [x |-> sx * lenSq + dot * C, y |-> sy * lenSq + dot * D, den |-> lenSq]

\* distance(canvasPos.x, canvasPos.y, xx, yy) squared, as the fraction num / den
SegmentDistSq(px, py, n) ==
    [num |-> (px * n.den - n.x) * (px * n.den - n.x) + (py * n.den - n.y) * (py * n.den - n.y),
     den |-> n.den * n.den]

\* Pointer and endpoint coordinates
ProbeCoords == {0, 5, 10, 15}

Probe0 == [measured |-> FALSE, p |-> <<0, 0>>, s |-> <<0, 0>>, t |-> <<0, 0>>,
           nearest |-> [x |-> 0, y |-> 0, den |-> 1], distSq |-> [num |-> 0, den |-> 1]]

\* A pointer p at canvasPos and an edge from s (sourceNode) to t (targetNode)
ProbeInit ==
    \E px \in ProbeCoords : \E py \in ProbeCoords :
    \E sx \in ProbeCoords : \E sy \in ProbeCoords :
    \E tx \in ProbeCoords : \E ty \in ProbeCoords :
        probe = [Probe0 EXCEPT !.p = <<px, py>>, !.s = <<sx, sy>>, !.t = <<tx, ty>>]

\* One iteration of the edge loop of findEdgeAtPosition, up to dist
measureEdge ==
    /\ ~probe.measured
    /\ LET n == NearestOnSegment(probe.p[1], probe.p[2], probe.s[1], probe.s[2],
                                 probe.t[1], probe.t[2])
       IN  probe' = [probe EXCEPT !.measured = TRUE, !.nearest = n,
                                  !.distSq = SegmentDistSq(probe.p[1], probe.p[2], n)]
    /\ UNCHANGED besidesProbe

----------------------------------------------------------------------------
(* Hit-testing: findNodeAtPosition, findEdgeAtPosition and the mouse handlers *)

\* Positions of mouse events, canvas-relative CSS pixels
MousePoints == {<<64, 166>>, <<160, 104>>, <<200, 150>>, <<220, 104>>, <<280, 104>>}

\* Frames that each carry a zoom animation to its end
WholeZooms == {ZOOM_DURATION}

\* transform.scale as the reduced fraction <<numerator, denominator>>
ScaleFraction(tr) == LET g == GCD(tr.scale, U) IN <<tr.scale \div g, U \div g>>

\* a * a < m, decided inside the 32-bit range (m < 2^31)
SqLess(a, m) == Abs(a) < 46341 /\ a * a < m

\* dist < radius / transform.scale for a distance given by its square:
\* distSq * scale^2 < radius^2
WithinScaled(distSq, radius, tr) ==
    LET sc == ScaleFraction(tr)
    IN  distSq * sc[1] * sc[1] < radius * radius * sc[2] * sc[2]

\* findNodeAtPosition: the node of the highest index within the hover radius
\* of the pointer (the loop runs from the end of the list), or Null
findNodeAtPosition(tr, ns, x, y) ==
    LET canvasPos == screenToCanvas(tr, x, y)
        near(k)   == WithinScaled(DistSq(canvasPos.x, canvasPos.y, ns[k].x, ns[k].y),
                                  HOVER_RADIUS, tr)
        hits      == {k \in 1..Len(ns) : near(k)}
    IN  IF hits = {} THEN Null
        ELSE ns[CHOOSE k \in hits : \A q \in hits : q <= k].id

\* dist < threshold of findEdgeAtPosition's loop body for the edge e, with
\* threshold = 8 / transform.scale.  At an endpoint (param < 0 or param > 1)
\* dist is the distance to that endpoint; on the projection
\* (xx, yy) = source + param * (C, D) it is |A * D - B * C| / sqrt(lenSq)
EdgeUnderThreshold(tr, ns, e, px, py) ==
    LET sourceNode == NodeAt(ns, e.source)
        targetNode == NodeAt(ns, e.target)
        A == px - sourceNode.x
        B == py - sourceNode.y
        C == targetNode.x - sourceNode.x
        D == targetNode.y - sourceNode.y
        dot   == A * C + B * D
        lenSq == C * C + D * D
        sc    == ScaleFraction(tr)
    IN  IF lenSq = 0 \/ dot < 0
        THEN WithinScaled(DistSq(px, py, sourceNode.x, sourceNode.y), 8, tr)
        ELSE IF dot > lenSq
        THEN WithinScaled(DistSq(px, py, targetNode.x, targetNode.y), 8, tr)
        ELSE SqLess((A * D - B * C) * sc[1], 64 * sc[2] * sc[2] * lenSq)

\* findEdgeAtPosition: null while this.hoveredNode is set; else the first edge
\* of the list under the threshold whose atoRisk is not null, or Null
findEdgeAtPosition(tr, ns, es, hovered, x, y) ==
    LET canvasPos == screenToCanvas(tr, x, y)
        hits      == {k \in 1..Len(es) :
                         /\ EdgeUnderThreshold(tr, ns, es[k], canvasPos.x, canvasPos.y)
                         /\ es[k].atoRisk # Null}
    IN  IF hovered # Null \/ hits = {} THEN Null
        ELSE CHOOSE k \in hits : \A q \in hits : k <= q

\* handleMouseMove for a mouse event at pt; findEdgeAtPosition reads
\* this.hoveredNode as the event before left it
handleMouseMoveAt(pt) ==
    /\ pc = "done"
    /\ LET node == findNodeAtPosition(transform, nodes, pt[1], pt[2])
           edge == IF node # Null THEN Null
                   ELSE findEdgeAtPosition(transform, nodes, edges, hoveredNode, pt[1], pt[2])
       IN  /\ hoveredNode' = node
           /\ hoveredEdge' = edge
    /\ pointer' = pt
    /\ UNCHANGED <<graphVars, camVars, otherVars>>

handleMouseMove == \E pt \in MousePoints : handleMouseMoveAt(pt)

handleMouseLeave ==
    /\ pc = "done"
    /\ hoveredNode' = Null
    /\ hoveredEdge' = Null
    /\ UNCHANGED <<graphVars, camVars, pointer, otherVars>>

----------------------------------------------------------------------------
(* DendriteSimulation: eased transitions and the physics of a frame *)

\* DENDRITE_CONFIG; pressures (MPa) and roughnesses (um) in hundredths
TRANSITION_DURATION         == 800
PRESSURE_MIN                == 200
PRESSURE_MAX                == 2000
PRESSURE_DEFAULT            == 1000
ROUGHNESS_MIN               == 10
ROUGHNESS_MAX               == 500
ROUGHNESS_DEFAULT           == 100
VOID_THRESHOLD_PRESSURE     == 800
DENDRITE_THRESHOLD_PRESSURE == 600

\* voidFraction and dendritePenetration are held in units of 1/10000, and
\* riskLevel in hundredths of a point; 0.02 is RECEDE of these units
F == 10 ^ 4
RECEDE == (2 * F) \div 100

\* Slider values the input events deliver, and frame deltas (ms)
PressureValues     == {200, 550, 1800}
RoughnessValues    == {10, 500}
DendriteFrameDeltas == {400, 800}
WholeTransitions    == {800}

\* The time (ms) up to which the frame clock is followed
MaxDendriteTime == 1600

\* lerp of part_000: t = <<numerator, denominator>> is clamped to [0, 1]
lerpClamped(a, b, t) ==
    LET num == Max(0, Min(t[2], t[1]))
    IN  a + RoundDiv((b - a) * num, t[2])

\* easeInOutCubic of part_000, the same cubic as the graph's
dendriteEase(p, d) == easeInOutCubic(p, d)

\* Canvas widths getBoundingClientRect() reports (CSS pixels), and the one
\* it reports to the constructor's handleResize()
DendriteWidths == {0, 18, 50}
ConstructedWidth == 50

\* The interface roughness profile of generateInterfaceGeometry at sample i:
\* sin(i * 0.3) * 0.5 + sin(i * 0.7 + 1.5) * 0.3 + sin(i * 1.2 + 3.0) * 0.2,
\* times 1000, for i = 0..12
Noise1000(i) ==
    <<327, 216, 200, 321, 391, 293, 182, 283, 563, 702, 440, -106, -557>>[i + 1]

\* noise1 + noise2 + noise3 of sample i for a roughness: y - interfaceY in
\* units of 1/1000 pixel, with amplitude = roughnessNormalized * 25
SampleY(roughness, i) ==
    RoundDiv((roughness - ROUGHNESS_MIN) * 25 * Noise1000(i), ROUGHNESS_MAX - ROUGHNESS_MIN)

\* A resampling whose loop stops one sample early (i < numPoints)
generateOneSampleShort(d) ==
    LET numPoints == d.width \div 4
        points    == [k \in 1..numPoints |-> SampleY(d.roughness, k - 1)]
    IN  [d EXCEPT !.interfacePoints = points, !.lithiumBottom = points]

\* generateInterfaceGeometry(): numPoints + 1 samples.  A sample is held as
\* y - interfaceY in units of 1/1000 pixel (x and baseY are not read by
\* anything modelled); lithiumBottom starts as a copy of the samples
generateInterfaceGeometry(d) ==
    LET numPoints == d.width \div 4
        points    == [k \in 1..(numPoints + 1) |-> SampleY(d.roughness, k - 1)]
    IN  [d EXCEPT !.interfacePoints = points, !.lithiumBottom = points]

\* The fields of the constructor before init(); elapsed stands for
\* timestamp - transitionStartTime, capped at TRANSITION_DURATION, and
\* nucleation for maxDensityIndex of the last drawDendrite (Null when it
\* returned before the search)
DendriteFields ==
    [pressure |-> PRESSURE_DEFAULT, roughness |-> ROUGHNESS_DEFAULT,
     animatedPressure |-> PRESSURE_DEFAULT, animatedRoughness |-> ROUGHNESS_DEFAULT,
     voidFraction |-> 0, dendritePenetration |-> 0, riskLevel |-> 0,
     isTransitioning |-> FALSE, elapsed |-> 0, lastFrameTime |-> 0,
     transitionStartPressure |-> 0, transitionStartRoughness |-> 0,
     transitionTargetPressure |-> 0, transitionTargetRoughness |-> 0,
     width |-> 0, interfacePoints |-> <<>>, lithiumBottom |-> <<>>,
     currentDensityMap |-> <<>>, nucleation |-> Null]

\* The state of the constructor: init() has run handleResize() and
\* generateInterfaceGeometry()
Dendrite0 == generateInterfaceGeometry([DendriteFields EXCEPT !.width = ConstructedWidth])

\* handleResize() of the simulation
dendriteResize ==
    /\ \E w \in DendriteWidths :
          dendrite' = generateInterfaceGeometry([dendrite EXCEPT !.width = w])
    /\ UNCHANGED besidesDendrite

setTargetPressure ==
    /\ \E value \in PressureValues :
          dendrite' = [dendrite EXCEPT
              !.transitionStartPressure = dendrite.animatedPressure,
              !.transitionTargetPressure = value,
              !.transitionStartRoughness = dendrite.animatedRoughness,
              !.transitionTargetRoughness = dendrite.roughness,
              !.elapsed = 0,
              !.isTransitioning = TRUE,
              !.pressure = value]
    /\ UNCHANGED besidesDendrite

setTargetRoughness ==
    /\ \E value \in RoughnessValues :
          dendrite' = generateInterfaceGeometry([dendrite EXCEPT
              !.transitionStartPressure = dendrite.animatedPressure,
              !.transitionTargetPressure = dendrite.pressure,
              !.transitionStartRoughness = dendrite.animatedRoughness,
              !.transitionTargetRoughness = value,
              !.elapsed = 0,
              !.isTransitioning = TRUE,
              !.roughness = value])
    /\ UNCHANGED besidesDendrite

\* A transition that blends towards its targets and never ends
updateTransitionsUnending(d, deltaTime) ==
    IF d.isTransitioning
    THEN LET elapsed == Min(d.elapsed + deltaTime, TRANSITION_DURATION)
             eased   == dendriteEase(elapsed, TRANSITION_DURATION)
         IN  [d EXCEPT
                 !.elapsed = elapsed,
                 !.animatedPressure =
                     lerpClamped(d.transitionStartPressure, d.transitionTargetPressure, eased),
                 !.animatedRoughness =
                     lerpClamped(d.transitionStartRoughness, d.transitionTargetRoughness, eased)]
    ELSE [d EXCEPT !.animatedPressure = d.pressure, !.animatedRoughness = d.roughness]

\* updateTransitions(timestamp), the frame coming deltaTime after the last
\* one; while the eased roughness is more than 0.01 away from this.roughness
\* the samples get the y of the eased roughness, in place
updateTransitions(d, deltaTime) ==
    IF d.isTransitioning
    THEN LET elapsed  == Min(d.elapsed + deltaTime, TRANSITION_DURATION)
             eased    == dendriteEase(elapsed, TRANSITION_DURATION)
             finished == elapsed >= TRANSITION_DURATION
             animatedRoughness ==
                 IF finished THEN d.transitionTargetRoughness
                 ELSE lerpClamped(d.transitionStartRoughness, d.transitionTargetRoughness, eased)
         IN  [d EXCEPT
                 !.elapsed = elapsed,
                 !.isTransitioning = ~finished,
                 !.animatedPressure =
                     IF finished THEN d.transitionTargetPressure
                     ELSE lerpClamped(d.transitionStartPressure, d.transitionTargetPressure, eased),
                 !.animatedRoughness = animatedRoughness,
                 !.interfacePoints =
                     IF Abs(animatedRoughness - d.roughness) > 1
                     THEN [k \in 1..Len(d.interfacePoints) |-> SampleY(animatedRoughness, k - 1)]
                     ELSE d.interfacePoints]
    ELSE [d EXCEPT !.animatedPressure = d.pressure, !.animatedRoughness = d.roughness]

\* A void formula in which roughness lowers the void fraction
VoidFallingWithRoughness(pressure, roughness) ==
    RoundDiv((VOID_THRESHOLD_PRESSURE - pressure)
                 * (8 * (F \div 10) * ((ROUGHNESS_MAX - ROUGHNESS_MIN) \div 10)
                    - 5 * (F \div 100) * (roughness - ROUGHNESS_MIN)),
             (VOID_THRESHOLD_PRESSURE - PRESSURE_MIN) * ((ROUGHNESS_MAX - ROUGHNESS_MIN) \div 10))

\* voidFactor * (0.3 + roughnessNorm * 0.5) below the void threshold
VoidBelowThreshold(pressure, roughness) ==
    RoundDiv((VOID_THRESHOLD_PRESSURE - pressure)
                 * (3 * (F \div 10) * ((ROUGHNESS_MAX - ROUGHNESS_MIN) \div 10)
                    + 5 * (F \div 100) * (roughness - ROUGHNESS_MIN)),
             (VOID_THRESHOLD_PRESSURE - PRESSURE_MIN) * ((ROUGHNESS_MAX - ROUGHNESS_MIN) \div 10))

\* A growth formula in which roughness lowers the penetration
GrowthFallingWithRoughness(pressure, roughness) ==
    RoundDiv((DENDRITE_THRESHOLD_PRESSURE - pressure)
                 * (10 * (F \div 10) * ((ROUGHNESS_MAX - ROUGHNESS_MIN) \div 10)
                    - 6 * (F \div 100) * (roughness - ROUGHNESS_MIN)),
             (DENDRITE_THRESHOLD_PRESSURE - PRESSURE_MIN) * ((ROUGHNESS_MAX - ROUGHNESS_MIN) \div 10))

\* growthFactor * (0.4 + roughnessNorm * 0.6) below the dendrite threshold
GrowthBelowThreshold(pressure, roughness) ==
    RoundDiv((DENDRITE_THRESHOLD_PRESSURE - pressure)
                 * (4 * (F \div 10) * ((ROUGHNESS_MAX - ROUGHNESS_MIN) \div 10)
                    + 6 * (F \div 100) * (roughness - ROUGHNESS_MIN)),
             (DENDRITE_THRESHOLD_PRESSURE - PRESSURE_MIN) * ((ROUGHNESS_MAX - ROUGHNESS_MIN) \div 10))

\* A recession that drops the penetration to zero at once
RecedeAtOnce(penetration) == 0

\* Math.max(0, this.dendritePenetration - 0.02)
Recede(penetration) == Max(0, penetration - RECEDE)

clamp(val, min, max) == Max(min, Min(max, val))

\* A risk level that follows the penetration alone
RiskFromPenetration(void, penetration) == penetration

\* Math.max(this.voidFraction, this.dendritePenetration) * 100, in hundredths
\* of a point: F / 100 hundredths per unit of F
RiskOf(void, penetration) == (Max(void, penetration) * 100 * 100) \div F

\* updateLithiumDeformation(pressureNorm): pressureNorm > 0.5 is pressure
\* above 11 MPa; the samples of lithiumBottom up to interfacePoints.length
\* get their y, held like the samples' as y - interfaceY
updateLithiumDeformation(d, pressure) ==
    LET half     == (PRESSURE_MIN + PRESSURE_MAX) \div 2
        span     == (PRESSURE_MAX - PRESSURE_MIN) \div 2
        y(k)     == IF pressure > half
                    THEN lerpClamped(0, d.interfacePoints[k], <<pressure - half, span>>)
                    ELSE 0 - RoundDiv(Max(0, d.interfacePoints[k]) * (half - pressure) * 4,
                                      span * 10)
    IN  [d EXCEPT !.lithiumBottom =
            [k \in 1..Len(d.lithiumBottom) |->
                IF k <= Len(d.interfacePoints) THEN y(k) ELSE d.lithiumBottom[k]]]

\* updateCurrentDensityMap(roughnessNorm, pressureNorm): one density per
\* sample, in units of 1/F; focusingFactor likewise
updateCurrentDensityMap(d, pressure, roughness) ==
    LET focusingFactor ==
            RoundDiv((PRESSURE_MAX - pressure) * (roughness - ROUGHNESS_MIN) * (F \div 100),
                     ((PRESSURE_MAX - PRESSURE_MIN) * (ROUGHNESS_MAX - ROUGHNESS_MIN)) \div 100)
        deviation(k) == 0 - d.interfacePoints[k]
        density(k)   == 3 * (F \div 10)
                        + (IF deviation(k) > 0
                           THEN RoundDiv(RoundDiv(deviation(k) * focusingFactor, 100) * 7, 2500)
                           ELSE 0)
    IN  [d EXCEPT !.currentDensityMap =
            [k \in 1..Len(d.interfacePoints) |-> clamp(density(k), 0, F)]]

\* A fallback to the first sample instead of the midpoint
FirstIndex(n) == 0

\* Math.floor(this.interfacePoints.length / 2)
MidpointIndex(n) == n \div 2

\* maxDensityIndex of drawDendrite (an index from 0): the loop keeps the first
\* index of the greatest density above 0; below the minimum density 0.4 the
\* midpoint of the n interface samples takes its place
NucleationIndex(map, n) ==
    LET above      == {k \in 1..Len(map) : map[k] > 0}
        maxDensity == IF above = {} THEN 0
                      ELSE map[CHOOSE k \in above : \A q \in above : map[q] <= map[k]]
        first      == IF above = {} THEN 0
                      ELSE (CHOOSE k \in above :
                               /\ map[k] = maxDensity
                               /\ \A q \in 1..(k - 1) : map[q] < maxDensity) - 1
    IN  IF maxDensity < 4 * (F \div 10) THEN MidpointIndex(n) ELSE first

\* drawDendrite(ctx), up to the choice of nucleationPoint
drawDendrite(d) ==
    IF d.dendritePenetration * 100 < 5 * F
    THEN [d EXCEPT !.nucleation = Null]
    ELSE [d EXCEPT !.nucleation = NucleationIndex(d.currentDensityMap,
                                                  Len(d.interfacePoints))]

\* The densities of the maps drawDendrite is given (in units of 1/F: 0.3,
\* just under 0.4, 0.4, 0.7) and the most samples such a map has
DensityValues == {3 * (F \div 10), 4 * (F \div 10) - 1, 4 * (F \div 10), 7 * (F \div 10)}
MaxSamples == 4
DensityMaps == UNION {[1..n -> DensityValues] : n \in 1..MaxSamples}

\* A simulation about to draw: a canvas of as many samples as the map has,
\* the map of the frame's updateCurrentDensityMap, and a penetration on
\* either side of drawDendrite's 0.05
NucleationInit ==
    \E map \in DensityMaps : \E penetration \in {(4 * F) \div 100, F} :
        dendrite = [generateInterfaceGeometry(
                        [DendriteFields EXCEPT !.width = 4 * (Len(map) - 1)])
                    EXCEPT !.currentDensityMap = map,
                           !.dendritePenetration = penetration]

\* render(): the call of drawDendrite
renderDendrite ==
    /\ dendrite.nucleation = Null
    /\ dendrite' = drawDendrite(dendrite)
    /\ UNCHANGED besidesDendrite

\* calculatePhysicsState(), the fields the gauges read
calculatePhysicsState(d) ==
    LET pressure    == d.animatedPressure
        roughness   == d.animatedRoughness
        void        == IF pressure < VOID_THRESHOLD_PRESSURE
                       THEN VoidBelowThreshold(pressure, roughness)
                       ELSE 0
        penetration == clamp(IF pressure < DENDRITE_THRESHOLD_PRESSURE
                             THEN GrowthBelowThreshold(pressure, roughness)
                             ELSE Recede(d.dendritePenetration), 0, F)
        set         == [d EXCEPT !.voidFraction = void,
                                 !.dendritePenetration = penetration,
                                 !.riskLevel = RiskOf(void, penetration)]
        deform(st)  == updateLithiumDeformation(st, pressure)
        map(st)     == updateCurrentDensityMap(st, pressure, roughness)
    IN  ByValue(map, ByValue(deform, set))

\* One frame of startAnimation's animate on a desktop (isMobile false),
\* deltaTime after the last one; render() draws the dendrite
animateFrame(deltaTime) ==
    /\ \E moved \in {updateTransitions(dendrite, deltaTime)} :
       \E state \in {calculatePhysicsState(moved)} :
          dendrite' = [drawDendrite(state)
                          EXCEPT !.lastFrameTime = Min(dendrite.lastFrameTime + deltaTime,
                                                       MaxDendriteTime)]
    /\ UNCHANGED besidesDendrite

\* The frames up to MaxDendriteTime
dendriteAnimate ==
    /\ dendrite.lastFrameTime < MaxDendriteTime
    /\ \E deltaTime \in DendriteFrameDeltas : animateFrame(deltaTime)

\* Frames without end, each a whole transition after the last one
dendriteAnimateSlow == \E deltaTime \in WholeTransitions : animateFrame(deltaTime)

----------------------------------------------------------------------------
(* I18n: the translation lookup t(key) *)

fallbackLanguage == "en"

\* A loaded translation file: objs holds the paths (sequences of key
\* segments) at which the JSON has an object, strs the paths at which it has
\* a string.  translations[language] of a language not loaded is undefined:
\* not even the empty path is an object.
Table(objs, strs) == [objs |-> objs, strs |-> strs]
NotLoaded == Table({}, {})

\* typeof of the value at path
TypeOf(table, path) ==
    IF path \in table.objs THEN "object"
    ELSE IF path \in table.strs THEN "string"
    ELSE "undefined"

\* What t returns: the string a language has at a path, the object it has
\* there, or the raw key
ValueResult(table, language, path) ==
    [kind |-> TypeOf(table, path), language |-> language, path |-> path]
KeyResult(key) == [kind |-> "key", language |-> "", path |-> key]

\* The loop "for (const k of keys)" from segment i on, value being the value
\* at path: broke when the else branch is taken, else the path of the last
\* value = value[k]
RECURSIVE WalkKeys(_, _, _, _)
WalkKeys(table, keys, i, path) ==
    IF i > Len(keys) THEN [broke |-> FALSE, path |-> path]
    ELSE IF TypeOf(table, path) = "object"
    THEN WalkKeys(table, keys, i + 1, Append(path, keys[i]))
    ELSE [broke |-> TRUE, path |-> path]

\* t(key, language), key given as key.split('.')
RECURSIVE I18n_t(_, _, _)
I18n_t(translations, key, language) ==
    LET walk == WalkKeys(translations[language], key, 1, <<>>)
    IN  IF walk.broke
        THEN IF language # fallbackLanguage
             THEN I18n_t(translations, key, fallbackLanguage)
             ELSE KeyResult(key)
        ELSE IF TypeOf(translations[language], walk.path) = "undefined"
        THEN KeyResult(key)
        ELSE ValueResult(translations[language], language, walk.path)

\* Languages, keys and translation files of the calls
LookupLanguages == {"en", "es"}
LookupKeys == {<<"nav">>, <<"nav", "home">>, <<"nav", "home", "title">>}
LookupTables ==
    {NotLoaded,
     Table({<<>>}, {}),
     Table({<<>>}, {<<"nav">>}),
     Table({<<>>, <<"nav">>}, {}),
     Table({<<>>, <<"nav">>}, {<<"nav", "home">>}),
     Table({<<>>, <<"nav">>, <<"nav", "home">>}, {<<"nav", "home", "title">>})}

I18n0 == [currentLanguage |-> fallbackLanguage,
          translations |-> [l \in LookupLanguages |-> NotLoaded],
          called |-> FALSE, key |-> <<>>, result |-> KeyResult(<<>>)]

LookupInit ==
    \E language \in LookupLanguages : \E key \in LookupKeys :
    \E en \in LookupTables : \E es \in LookupTables :
        i18n = [I18n0 EXCEPT !.currentLanguage = language,
                             !.translations = [l \in LookupLanguages |->
                                                  IF l = fallbackLanguage THEN en ELSE es],
                             !.key = key]

\* One call t(key) with the default language = this.currentLanguage
callT ==
    /\ ~i18n.called
    /\ i18n' = [i18n EXCEPT !.called = TRUE,
                            !.result = I18n_t(i18n.translations, i18n.key,
                                              i18n.currentLanguage)]
    /\ UNCHANGED besidesI18n

----------------------------------------------------------------------------
(* Both widgets: startAnimation, the frame callback and destroy *)

Widgets == {"fraud", "dendrite"}

\* The calls of requestAnimationFrame a run may make (unlimited in the code)
MaxRequests == 8

\* A widget before its constructor ran.  pending is the set of handles of
\* this widget's callbacks in the browser's frame-callback list; frames
\* counts the update/render steps run, requests the calls of
\* requestAnimationFrame; destroyed records that destroy() was called
Loop0 == [created |-> FALSE, animationId |-> Null, pending |-> {}, attached |-> FALSE,
          frames |-> 0, requests |-> 0, destroyed |-> FALSE]

\* The handle the next requestAnimationFrame returns: handles are positive
\* and grow by one per call in the window
NextHandle == 1 + loops["fraud"].requests + loops["dendrite"].requests

\* this.animationId = requestAnimationFrame(...)
requestFrame(l, handle) ==
    [l EXCEPT !.animationId = handle, !.pending = l.pending \cup {handle},
              !.requests = l.requests + 1]

\* update / render of one frame followed by the request for the next one
runFrame(l, handle) == requestFrame([l EXCEPT !.frames = l.frames + 1], handle)

\* new FraudGraphNetwork / new DendriteSimulation: the wrapper is appended to
\* the container; the graph's startAnimation calls animate() at once, the
\* simulation's startAnimation only requests the first frame
construct(w) ==
    /\ ~loops[w].created
    /\ NextHandle <= MaxRequests
    /\ LET l == [loops[w] EXCEPT !.created = TRUE, !.attached = TRUE]
       IN  loops' = [loops EXCEPT ![w] = IF w = "fraud" THEN runFrame(l, NextHandle)
                                         ELSE requestFrame(l, NextHandle)]
    /\ UNCHANGED besidesLoops

\* The browser runs a callback of its list: animate
frameCallback(w) ==
    /\ NextHandle <= MaxRequests
    /\ \E handle \in loops[w].pending :
          loops' = [loops EXCEPT ![w] =
                       runFrame([loops[w] EXCEPT !.pending = loops[w].pending \ {handle}],
                                NextHandle)]
    /\ UNCHANGED besidesLoops

\* A destroy that leaves the frame-callback list as it is
cancelNothing(pending, handle) == pending

\* cancelAnimationFrame(handle): a handle that is not in the list is ignored
cancelAnimationFrame(pending, handle) == pending \ {handle}

\* destroy(), called between callbacks on a constructed widget
destroy(w) ==
    /\ loops[w].created
    /\ loops' = [loops EXCEPT ![w] =
                    [loops[w] EXCEPT
                        !.pending = IF loops[w].animationId # Null
                                    THEN cancelAnimationFrame(loops[w].pending,
                                                              loops[w].animationId)
                                    ELSE loops[w].pending,
                        !.attached = FALSE,
                        !.destroyed = TRUE]]
    /\ UNCHANGED besidesLoops

----------------------------------------------------------------------------
(* I18n: the language of the page *)

\* this.supportedLanguages is ['en', 'es', 'de', 'fr', 'it', 'pt']; three of
\* them here, and "xx" for a language that is not supported
supportedLanguages == {"en", "es", "de"}
AnyLanguage == supportedLanguages \cup {"xx"}

\* A test that lets every language through
everyLanguageSupported(lang) == TRUE

\* isLanguageSupported(lang)
isLanguageSupported(lang) == lang \in supportedLanguages

\* What the geolocation lookup ends with: a rejected fetch or a response
\* that is not ok ("failed"), a body with no country_code ("undefined"), or
\* a country code
Countries == {"MX", "DE", "US", "JP"}
GeoOutcomes == {"failed", "undefined"} \cup Countries

\* navigator.language as <<language, region>>
BrowserLanguages == {<<"es", "MX">>, <<"en", "US">>, <<"ja", "JP">>}

\* What localStorage holds under preferredLanguage when the page is first
\* opened
StoredAtFirst == {"none", "xx", "es"}

\* detectUserCountry(): the country code, or null when the lookup failed
detectUserCountry(outcome) ==
    IF outcome \in {"failed", "undefined"} THEN "null" ELSE outcome

\* getLanguageFromCountry(countryCode): this.countryToLanguage[code] || null
getLanguageFromCountry(countryCode) ==
    CASE countryCode = "MX" -> "es"
      [] countryCode = "DE" -> "de"
      [] countryCode = "US" -> "en"
      [] OTHER -> "null"

\* A detection that passes the saved preference over
NoSavedChoice(saved) == "null"

\* Priority 1 of detectLanguage: the saved preference if supported, else null
SavedChoice(saved) ==
    IF saved # "none" /\ isLanguageSupported(saved) THEN saved ELSE "null"

\* Priorities 2 to 4 of detectLanguage, after the await of detectUserCountry
AfterLookup(countryCode, browser) ==
    LET geoLanguage == IF countryCode # "null" THEN getLanguageFromCountry(countryCode)
                       ELSE "null"
        browserLanguage == browser[1]
    IN  IF geoLanguage # "null" /\ isLanguageSupported(geoLanguage) THEN geoLanguage
        ELSE IF isLanguageSupported(browserLanguage) THEN browserLanguage
        ELSE "en"

\* detectLanguage(): the language, and whether detectUserCountry was called
detectLanguage(saved, outcome, browser) ==
    IF SavedChoice(saved) # "null"
    THEN [language |-> SavedChoice(saved), lookedUp |-> FALSE]
    ELSE [language |-> AfterLookup(detectUserCountry(outcome), browser), lookedUp |-> TRUE]

\* The changeLanguage calls a run may make, and those awaiting their
\* translations at once
MaxChanges == 3
MaxCalls == 2

NoEvent == [language |-> "none", current |-> "none"]

\* A new I18n over an empty localStorage.  at is the position of init();
\* calls the changeLanguage calls awaiting loadTranslations, each with the
\* file it is importing; page the language whose strings
\* updatePageTranslations() last wrote ("keys" for raw keys); event the last
\* languageChanged with this.currentLanguage at its dispatch.  History:
\* saved, geo and browser are what detectLanguage read, detected what it
\* returned, requested and requests the last and the count of changeLanguage
\* calls.
Locale0 ==
    [currentLanguage |-> "null", detectionComplete |-> FALSE, stored |-> "none",
     loaded |-> {}, at |-> "new", importing |-> "null", calls |-> <<>>,
     page |-> "none", event |-> NoEvent,
     saved |-> "none", geo |-> "none", browser |-> <<"none", "none">>,
     detected |-> "null", lookedUp |-> FALSE,
     requested |-> "none", requests |-> 0]

\* The strings t(key) gives the page: those of currentLanguage when its
\* file is loaded, else the fallback language's, else the raw keys
PageStrings(l) ==
    IF l.currentLanguage \in l.loaded THEN l.currentLanguage
    ELSE IF fallbackLanguage \in l.loaded THEN fallbackLanguage
    ELSE "keys"

\* updatePageTranslations(), updateLanguageSelector() and the dispatch of
\* languageChanged with detail.language = language
updateAndDispatch(l, language) ==
    [l EXCEPT !.page = PageStrings(l),
              !.event = [language |-> language, current |-> l.currentLanguage]]

\* init() up to its first await: a supported saved preference is the
\* language at once and its file is imported; else detectUserCountry is
\* awaited
initBegin ==
    /\ locale.at = "new"
    /\ LET choice == SavedChoice(locale.stored)
       IN  locale' = IF choice # "null"
                     THEN [locale EXCEPT !.saved = locale.stored,
                                         !.detected = choice,
                                         !.currentLanguage = choice,
                                         !.detectionComplete = TRUE,
                                         !.importing = choice,
                                         !.at = "load"]
                     ELSE [locale EXCEPT !.saved = locale.stored, !.at = "geo"]
    /\ UNCHANGED besidesLocale

\* detectUserCountry() has settled; detectLanguage returns and init goes on
\* to import the language's file
geoReturns ==
    /\ locale.at = "geo"
    /\ \E outcome \in GeoOutcomes : \E browser \in BrowserLanguages :
         LET language == AfterLookup(detectUserCountry(outcome), browser)
         IN  locale' = [locale EXCEPT !.geo = outcome, !.browser = browser,
                                      !.lookedUp = TRUE,
                                      !.detected = language,
                                      !.currentLanguage = language,
                                      !.detectionComplete = TRUE,
                                      !.importing = language,
                                      !.at = "load"]
    /\ UNCHANGED besidesLocale

\* The import of init's loadTranslations has settled: a file loaded is kept;
\* a failure imports the fallback language's file next, or gives up if that
\* was the one; then the page is updated, the switcher is set up and
\* languageChanged is dispatched
initLoadReturns ==
    /\ locale.at = "load"
    /\ \E ok \in BOOLEAN :
         IF ok
         THEN locale' = [updateAndDispatch(
                             [locale EXCEPT !.loaded = locale.loaded \cup {locale.importing}],
                             locale.currentLanguage)
                         EXCEPT !.at = "ready", !.importing = "null"]
         ELSE IF locale.importing # fallbackLanguage
         THEN locale' = [locale EXCEPT !.importing = fallbackLanguage]
         ELSE locale' = [updateAndDispatch(locale, locale.currentLanguage)
                         EXCEPT !.at = "ready", !.importing = "null"]
    /\ UNCHANGED besidesLocale

\* The language is made current but not written to localStorage
setCurrentOnly(l, language) == [l EXCEPT !.currentLanguage = language]

\* this.currentLanguage = language; localStorage.setItem('preferredLanguage', language)
setAndStore(l, language) == [l EXCEPT !.currentLanguage = language, !.stored = language]

\* changeLanguage(language) up to its await, or to its end when the file is
\* loaded already.  The switcher that calls it is set up at the end of init.
changeLanguage ==
    /\ locale.at = "ready"
    /\ locale.requests < MaxChanges
    /\ Len(locale.calls) < MaxCalls
    /\ \E language \in AnyLanguage :
         LET asked == [locale EXCEPT !.requested = language, !.requests = locale.requests + 1]
             set   == setAndStore(asked, language)
         IN  locale' = IF ~isLanguageSupported(language) THEN asked
                       ELSE IF language \in locale.loaded
                       THEN updateAndDispatch(set, language)
                       ELSE [set EXCEPT !.calls = Append(locale.calls,
                                            [language |-> language, importing |-> language])]
    /\ UNCHANGED besidesLocale

Without(seq, k) == SubSeq(seq, 1, k - 1) \o SubSeq(seq, k + 1, Len(seq))

\* The import of one waiting changeLanguage call has settled
changeLoadReturns ==
    /\ \E k \in 1..Len(locale.calls) : \E ok \in BOOLEAN :
         LET call == locale.calls[k]
             rest == [locale EXCEPT !.calls = Without(locale.calls, k)]
         IN  IF ok
             THEN locale' = updateAndDispatch(
                                [rest EXCEPT !.loaded = locale.loaded \cup {call.importing}],
                                call.language)
             ELSE IF call.importing # fallbackLanguage
             THEN locale' = [locale EXCEPT !.calls[k].importing = fallbackLanguage]
             ELSE locale' = updateAndDispatch(rest, call.language)
    /\ UNCHANGED besidesLocale

\* The page is opened again: a new I18n, the same localStorage
reopen ==
    /\ locale.at # "new"
    /\ locale' = [Locale0 EXCEPT !.stored = locale.stored]
    /\ UNCHANGED besidesLocale

\* The first visit, with whatever localStorage holds
LocaleInit == \E stored \in StoredAtFirst : locale = [Locale0 EXCEPT !.stored = stored]

----------------------------------------------------------------------------
(* digital-twin.js: the scripted timeline, one step per await *)

Assets == {"pump", "motor"}
Metrics == 1..5

\* The cycles of "while (true)" a run may go through (endless in the code)
MaxCycles == 3

\* Which of the five metric cards of each asset the page holds
PresentSets == {Metrics, {2, 4}}

\* Before DOMContentLoaded and its 1500 ms timer.  hidden is the set of
\* assets whose metrics container carries the class "hidden", visible the
\* metric cards that do not, shown the cards shown in the cycle so far, in
\* order; cycle counts the completed cycles.
Twin0 == [mode |-> "none", at |-> "load", isMotor |-> FALSE, currentAssetType |-> "pump",
          cycle |-> 0, i |-> 0, step |-> 0, hidden |-> {}, visible |-> {}, shown |-> <<>>,
          present |-> Metrics]

Other(asset) == IF asset = "pump" THEN "motor" ELSE "pump"

\* The timer of DOMContentLoaded: window.innerWidth < 768 starts the mobile
\* loop, else the desktop loop; each runs to its first await.  The desktop
\* loop sets the classes of both containers, the mobile loop leaves them as
\* the page has them.
startLoop ==
    /\ twin.at = "load"
    /\ \E mode \in {"desktop", "mobile"} : \E present \in PresentSets :
       \E pageHidden \in SUBSET Assets :
          twin' = [Twin0 EXCEPT !.mode = mode, !.at = "begin", !.present = present,
                                !.hidden = IF mode = "desktop" THEN {"motor"} ELSE pageHidden]
    /\ UNCHANGED besidesTwin

\* The resize listener: a change of mode reloads the page
resizeReload ==
    /\ twin.at # "load"
    /\ twin' = Twin0
    /\ UNCHANGED besidesTwin

\* The awaits of the desktop loop before the metrics: wave, processing
\* indicator, data flow, server activity, vertical line
DesktopIntro == <<"begin", "wave", "processing", "dataFlow", "server", "line">>

IndexOf(seq, x) == CHOOSE k \in 1..Len(seq) : seq[k] = x

desktopIntro ==
    /\ twin.mode = "desktop"
    /\ twin.at \in SeqRange(DesktopIntro) \ {"line"}
    /\ twin.at = "begin" => twin.cycle < MaxCycles
    /\ twin' = [twin EXCEPT !.at = DesktopIntro[IndexOf(DesktopIntro, twin.at) + 1]]
    /\ UNCHANGED besidesTwin

\* A metric shown although the timeline is on the other asset
showOtherMetric(t, id) ==
    [t EXCEPT !.visible = {<<Other(t.currentAssetType), id>>},
              !.shown = Append(t.shown, <<Other(t.currentAssetType), id>>)]

\* showPumpMetric(id) / showMotorMetric(id) of the branch currentAssetType
\* takes: the cards of that asset are hidden, then card id is shown if the
\* page holds it
showMetric(t, id) ==
    LET asset == t.currentAssetType
        rest  == {v \in t.visible : v[1] # asset}
    IN  IF id \in t.present
        THEN [t EXCEPT !.visible = rest \cup {<<asset, id>>},
                       !.shown = Append(t.shown, <<asset, id>>)]
        ELSE [t EXCEPT !.visible = rest]

\* One showXMetric(i) and its await; the branch was chosen by
\* currentAssetType before metric 1
desktopMetric ==
    /\ twin.mode = "desktop"
    /\ \/ twin.at = "line" /\ twin' = [showMetric(twin, 1) EXCEPT !.at = "metric", !.i = 1]
       \/ /\ twin.at = "metric" /\ twin.i < 5
          /\ twin' = [showMetric(twin, twin.i + 1) EXCEPT !.i = twin.i + 1]
    /\ UNCHANGED besidesTwin

\* hideAllMetrics() and the rest of the clean-up, then await wait(1000)
desktopCleanup ==
    /\ twin.mode = "desktop"
    /\ twin.at = "metric" /\ twin.i = 5
    /\ twin' = [twin EXCEPT !.at = "clean", !.visible = {}]
    /\ UNCHANGED besidesTwin

\* A switch that leaves the asset as it is
keepAsset(t) == [t EXCEPT !.cycle = t.cycle + 1, !.shown = <<>>]

\* isMotor = !isMotor; currentAssetType = isMotor ? 'motor' : 'pump'
switchAsset(t) ==
    [t EXCEPT !.isMotor = ~t.isMotor,
              !.currentAssetType = IF ~t.isMotor THEN "motor" ELSE "pump",
              !.cycle = t.cycle + 1,
              !.shown = <<>>]

\* The switch of the desktop loop: the asset, the title, the containers,
\* the fade-out of the old viewer, then await wait(600)
desktopSwitch ==
    /\ twin.mode = "desktop"
    /\ twin.at = "clean"
    /\ \E sw \in {switchAsset(twin)} :
          twin' = [sw EXCEPT !.at = "fade", !.hidden = {Other(sw.currentAssetType)}]
    /\ UNCHANGED besidesTwin

\* The viewers swapped, await wait(600), and the loop starts over
desktopSwap ==
    /\ twin.mode = "desktop"
    /\ \/ twin.at = "fade" /\ twin' = [twin EXCEPT !.at = "swapped"]
       \/ twin.at = "swapped" /\ twin' = [twin EXCEPT !.at = "begin"]
    /\ UNCHANGED besidesTwin

\* showMobileStep(1) with the waves, then showMobileStep(2)
mobileSteps ==
    /\ twin.mode = "mobile"
    /\ \/ /\ twin.at = "begin" /\ twin.cycle < MaxCycles
          /\ twin' = [twin EXCEPT !.at = "step1", !.step = 1]
       \/ twin.at = "step1" /\ twin' = [twin EXCEPT !.at = "step2", !.step = 2]
    /\ UNCHANGED besidesTwin

\* One iteration of the loop of showMobileMetricsSequence(type) from card
\* i on: a card the page does not hold is passed over with no await
RECURSIVE mobileSequence(_, _, _)
mobileSequence(t, type, i) ==
    IF i > 5 THEN [t EXCEPT !.at = "sequenceEnd", !.i = 5]
    ELSE IF i \in t.present
         THEN [t EXCEPT !.at = "metric", !.i = i,
                        !.visible = {<<type, i>>},
                        !.shown = Append(t.shown, <<type, i>>)]
         ELSE mobileSequence(t, type, i + 1)

\* showMobileStep(3), the containers, and showMobileMetricsSequence up to
\* its first await
mobileStep3 ==
    /\ twin.mode = "mobile"
    /\ twin.at = "step2"
    /\ \E t3 \in {[twin EXCEPT !.step = 3, !.hidden = {Other(twin.currentAssetType)}]} :
          twin' = mobileSequence(t3, twin.currentAssetType, 1)
    /\ UNCHANGED besidesTwin

\* The sequence after an await wait(3000)
mobileMetric ==
    /\ twin.mode = "mobile"
    /\ twin.at = "metric"
    /\ twin' = mobileSequence(twin, twin.currentAssetType, twin.i + 1)
    /\ UNCHANGED besidesTwin

\* hideAllMobileMetrics(); await wait(1000)
mobileCleanup ==
    /\ twin.mode = "mobile"
    /\ twin.at = "sequenceEnd"
    /\ twin' = [twin EXCEPT !.at = "clean", !.visible = {}]
    /\ UNCHANGED besidesTwin

\* The switch of the mobile loop: the asset, the title and the viewers (the
\* containers are left for the next step 3), await wait(500)
mobileSwitch ==
    /\ twin.mode = "mobile"
    /\ \/ twin.at = "clean" /\ twin' = [switchAsset(twin) EXCEPT !.at = "swapped"]
       \/ twin.at = "swapped" /\ twin' = [twin EXCEPT !.at = "begin"]
    /\ UNCHANGED besidesTwin

----------------------------------------------------------------------------
(* Specifications *)

GraphInit ==
    /\ width = 0
    /\ height = 0
    /\ nodes = <<>>
    /\ edges = <<>>
    /\ muleClusters = <<>>
    /\ pc = "idle"
    /\ loc = Loc0

CamInit ==
    /\ transform = Transform0
    /\ zoomFrom = U
    /\ time = 0
    /\ hoveredNode = Null
    /\ hoveredEdge = Null
    /\ pointer = <<0, 0>>

\* Where the fields a specification does not move are kept
Parked ==
    /\ idleNode = IdleNode0
    /\ probe = Probe0
    /\ dendrite = Dendrite0
    /\ i18n = I18n0
    /\ loops = [w \in Widgets |-> Loop0]
    /\ locale = Locale0
    /\ twin = Twin0

Init == GraphInit /\ CamInit /\ Parked

\* The language of the page over visits, with changeLanguage calls whose
\* imports settle in any order
LocaleNext ==
    \/ initBegin
    \/ geoReturns
    \/ initLoadReturns
    \/ changeLanguage
    \/ changeLoadReturns
    \/ reopen

LocaleSpecInit ==
    /\ GraphInit /\ CamInit
    /\ idleNode = IdleNode0
    /\ probe = Probe0
    /\ dendrite = Dendrite0
    /\ i18n = I18n0
    /\ loops = [w \in Widgets |-> Loop0]
    /\ LocaleInit
    /\ twin = Twin0

SpecLocale == LocaleSpecInit /\ [][LocaleNext]_vars

\* The digital-twin timeline, reloads included
TwinNext ==
    \/ startLoop
    \/ resizeReload
    \/ desktopIntro
    \/ desktopMetric
    \/ desktopCleanup
    \/ desktopSwitch
    \/ desktopSwap
    \/ mobileSteps
    \/ mobileStep3
    \/ mobileMetric
    \/ mobileCleanup
    \/ mobileSwitch

SpecTwin == Init /\ [][TwinNext]_vars

\* Network generation with varied links and low-risk nodes
GenNext ==
    \/ InitWidget(GenLimits)
    \/ handleResize(GenLimits)
    \/ Generate(GenLimits)

SpecGen == Init /\ [][GenNext]_vars

\* Network generation on canvases of every size: the usual one, a small one
\* and the empty rectangle of a hidden container.  generateNetworkData is
\* one synchronous call, so once begun its steps keep being taken.
SizeNext ==
    \/ InitWidgetAt(GenLimits, EverySize)
    \/ handleResizeTo(GenLimits, EverySize)
    \/ Generate(GenLimits)

SpecSizes == Init /\ [][SizeNext]_vars /\ WF_vars(Generate(GenLimits))

\* The network generated on the usual canvas and again at every resize, to
\* any size
ResizedNext ==
    \/ InitWidget(GenLimits)
    \/ handleResizeTo(GenLimits, EverySize)
    \/ Generate(GenLimits)

SpecResized == Init /\ [][ResizedNext]_vars

\* Network generation with a six-node cluster
WebNext ==
    \/ InitWidget(WebLimits)
    \/ handleResize(WebLimits)
    \/ Generate(WebLimits)

SpecWeb == Init /\ [][WebNext]_vars

\* The camera over a generated network of two clusters
CamNext ==
    \/ InitWidget(CamLimits)
    \/ handleResize(CamLimits)
    \/ Generate(CamLimits)
    \/ handleClick
    \/ handleTouchStart
    \/ animate

SpecCam == Init /\ [][CamNext]_vars

\* Hovering over a generated network of two clusters, with taps and frames
HoverNext ==
    \/ InitWidget(CamLimits)
    \/ handleResize(CamLimits)
    \/ Generate(CamLimits)
    \/ handleMouseMove
    \/ handleMouseLeave
    \/ handleClick
    \/ animateFrames(WholeZooms)

SpecHover == Init /\ [][HoverNext]_vars

\* A pointer position over the first hub
HoverPoint == <<160, 104>>

\* One node under the idle motion with noise, while the camera zooms and the
\* pointer hovers
MotionNext ==
    \/ InitWidget(CamLimits)
    \/ Generate(CamLimits)
    \/ handleMouseMoveAt(HoverPoint)
    \/ handleClick
    \/ update(WholeZooms, NoiseEnds)

MotionSpecInit ==
    /\ GraphInit /\ CamInit
    /\ IdleInit
    /\ probe = Probe0
    /\ dendrite = Dendrite0
    /\ i18n = I18n0
    /\ loops = [w \in Widgets |-> Loop0]
    /\ locale = Locale0
    /\ twin = Twin0

SpecMotion == MotionSpecInit /\ [][MotionNext]_vars

\* One node under the idle motion with no noise; frames keep coming
\* (each animate() requests the next frame)
IdleNext == idleFrame(ZeroNoise)

IdleSpecInit ==
    /\ GraphInit /\ CamInit
    /\ IdleInit
    /\ probe = Probe0
    /\ dendrite = Dendrite0
    /\ i18n = I18n0
    /\ loops = [w \in Widgets |-> Loop0]
    /\ locale = Locale0
    /\ twin = Twin0

SpecIdle == IdleSpecInit /\ [][IdleNext]_vars /\ WF_vars(IdleNext)

\* The point-to-segment distance over a grid of pointers and segments
SegNext == measureEdge

SegInit ==
    /\ GraphInit /\ CamInit
    /\ ProbeInit
    /\ idleNode = IdleNode0
    /\ dendrite = Dendrite0
    /\ i18n = I18n0
    /\ loops = [w \in Widgets |-> Loop0]
    /\ locale = Locale0
    /\ twin = Twin0

SpecSeg == SegInit /\ [][SegNext]_vars

\* Calls of t over a grid of languages, keys and translation files
LookupNext == callT

LookupSpecInit ==
    /\ GraphInit /\ CamInit
    /\ idleNode = IdleNode0
    /\ probe = Probe0
    /\ dendrite = Dendrite0
    /\ LookupInit
    /\ loops = [w \in Widgets |-> Loop0]
    /\ locale = Locale0
    /\ twin = Twin0

SpecLookup == LookupSpecInit /\ [][LookupNext]_vars

\* The animation loops of the two widgets, from construction to teardown
TeardownNext ==
    \E w \in Widgets :
        \/ construct(w)
        \/ frameCallback(w)
        \/ destroy(w)

SpecTeardown == Init /\ [][TeardownNext]_vars

\* The dendrite simulation under slider events and frames
DendriteNext ==
    \/ setTargetPressure
    \/ setTargetRoughness
    \/ dendriteAnimate

SpecDendrite == Init /\ [][DendriteNext]_vars

\* drawDendrite over a grid of current density maps
NucleationNext == renderDendrite

NucleationSpecInit ==
    /\ GraphInit /\ CamInit
    /\ idleNode = IdleNode0
    /\ probe = Probe0
    /\ NucleationInit
    /\ i18n = I18n0
    /\ loops = [w \in Widgets |-> Loop0]
    /\ locale = Locale0
    /\ twin = Twin0

SpecNucleation == NucleationSpecInit /\ [][NucleationNext]_vars

\* The simulation under resizes, roughness changes and frames
InterfaceNext ==
    \/ dendriteResize
    \/ setTargetRoughness
    \/ dendriteAnimate

SpecInterface == Init /\ [][InterfaceNext]_vars

\* The simulation under frames that keep coming (each frame requests the next)
DendriteFairNext ==
    \/ setTargetPressure
    \/ setTargetRoughness
    \/ dendriteAnimateSlow

SpecDendriteFair == Init /\ [][DendriteFairNext]_vars /\ WF_vars(dendriteAnimateSlow)

----------------------------------------------------------------------------
(* Properties of the generated network *)

EdgeEnds(e) == {e.source, e.target}

\* C1: after generateNetworkData returns, no two edges of this.edges join
\* the same unordered pair of node ids.
NoDuplicateEdges ==
    pc = "done" =>
        \A a \in 1..Len(edges) : \A b \in 1..Len(edges) :
            a # b => EdgeEnds(edges[a]) # EdgeEnds(edges[b])

\* The ids of the nodes of cluster c, and the cluster-c edges at a node
ClusterMembers(c) == {nodes[k].id : k \in {q \in 1..Len(nodes) : nodes[q].clusterId = c}}

ClusterNeighbours(c, id) ==
    {IF edges[k].source = id THEN edges[k].target ELSE edges[k].source :
        k \in {q \in 1..Len(edges) : edges[q].clusterId = c /\ id \in EdgeEnds(edges[q])}}

RECURSIVE ReachFrom(_, _)
ReachFrom(c, S) ==
    LET N == S \cup UNION {ClusterNeighbours(c, id) : id \in S}
    IN  IF N = S THEN S ELSE ReachFrom(c, N)

ClusterConnected(c) ==
    LET M == ClusterMembers(c)
    IN  M = {} \/ M \subseteq ReachFrom(c, {CHOOSE m \in M : TRUE})

----------------------------------------------------------------------------
(* Properties of the camera *)

\* C3: during a zoom from scale 1 to scale ZOOM_LEVEL the scale is
\* 1 + (ZOOM_LEVEL - 1) * easeInOutCubic(zoomProgress), however the elapsed
\* time was split into frames (1.5 at progress 0.5).
ZoomScaleFollowsEase ==
    (pc = "done" /\ zoomFrom = U /\ transform.targetScale = ZOOM_LEVEL * U)
        => transform.scale =
               lerp(U, ZOOM_LEVEL * U, easeInOutCubic(transform.zoomProgress, ZOOM_DURATION))

\* The camera rests on the whole graph / on cluster c
CameraIdle ==
    /\ transform.focusedCluster = Null
    /\ transform.scale = U
    /\ transform.x = 0 /\ transform.y = 0

CameraFocused(c) ==
    LET o == ClusterCentreOffset(nodes, width, height, c, nodes[1])
    IN  /\ transform.focusedCluster = c
        /\ transform.scale = ZOOM_LEVEL * U
        /\ transform.x = o.x /\ transform.y = o.y

\* C4: whenever no zoom animation is in progress the camera is idle or
\* focused on a cluster, so focusedCluster is non-null exactly when the
\* scale is ZOOM_LEVEL.
CameraIdleOrFocused ==
    (pc = "done" /\ ~transform.isZooming)
        => /\ CameraIdle \/ \E c \in 0..(Len(muleClusters) - 1) : CameraFocused(c)
           /\ (transform.focusedCluster # Null) <=> (transform.scale = ZOOM_LEVEL * U)

\* The high-risk nodes at the least distance from canvas position (x, y)
NearestHighRisk(x, y) ==
    LET high == {k \in 1..Len(nodes) : nodes[k].isHighRisk}
        d(k) == DistSq(x, y, nodes[k].x, nodes[k].y)
    IN  {k \in high : \A q \in high : d(k) <= d(q)}

\* C5: a tap on an unfocused camera focuses the cluster of the high-risk
\* node nearest to the tapped canvas position and targets ZOOM_LEVEL; a tap
\* on a focused camera, also mid-animation, unfocuses it and targets scale
\* 1; no step takes the camera from one cluster straight to another.
TapTransitions ==
    [][ /\ \A pt \in TapPoints :
              (pc = "done" /\ Tap(pt[1], pt[2])) =>
                  LET canvasPos == screenToCanvas(transform, pt[1], pt[2])
                  IN  IF transform.focusedCluster = Null
                      THEN /\ transform'.targetScale = ZOOM_LEVEL * U
                           /\ \E k \in NearestHighRisk(canvasPos.x, canvasPos.y) :
                                  transform'.focusedCluster = nodes[k].clusterId
                      ELSE /\ transform'.targetScale = U
                           /\ transform'.focusedCluster = Null
        /\ (transform.focusedCluster # Null /\ transform'.focusedCluster # Null)
              => transform'.focusedCluster = transform.focusedCluster
      ]_vars

\* A camera that was tapped back out in the middle of its zoom-in
TappedOutMidAnimation ==
    /\ pc = "done"
    /\ transform.focusedCluster = Null
    /\ transform.isZooming /\ transform.zoomProgress = 0
    /\ transform.scale # U /\ transform.scale # ZOOM_LEVEL * U

----------------------------------------------------------------------------
(* Properties of the idle motion *)

\* Within 1/20 pixel of the rest position, at under 1/200 pixel per frame
IdleNearRest ==
    /\ Abs(idleNode.x - idleNode.baseX) <= Q \div 20
    /\ Abs(idleNode.y - idleNode.baseY) <= Q \div 20
    /\ Abs(idleNode.vx) <= Q \div 200
    /\ Abs(idleNode.vy) <= Q \div 200

\* C7: with the noise term at zero, frame after frame the node never gets
\* farther than 40 pixels from its rest position (it starts up to 35 away)
\* and from some frame on it stays next to the rest position, nearly still.
IdleConverges ==
    /\ [](/\ Abs(idleNode.x - idleNode.baseX) <= 40 * Q
          /\ Abs(idleNode.y - idleNode.baseY) <= 40 * Q)
    /\ <>[]IdleNearRest

\* The node, started 20 to 35 pixels away, has come to rest
IdleCameToRest ==
    /\ IdleNearRest
    /\ idleNode.baseX = 200 * Q

----------------------------------------------------------------------------
(* Properties of the dendrite simulation *)

\* The slider ranges: pressure 2..20 in steps of 0.5, roughness 0.1..5.0 in steps of 0.1
PressureGrid  == {PRESSURE_MIN + 50 * k : k \in 0..36}
RoughnessGrid == {ROUGHNESS_MIN + 10 * k : k \in 0..49}

\* C8: while the eased pressure is below the dendrite threshold, the
\* penetration of the frame is the growth formula's value, no less than the
\* formula gives for any lower roughness or higher pressure (below the
\* threshold) of the slider ranges and no more than it gives for any higher
\* roughness or lower pressure; (2 MPa, 5.0) gives strictly more than (2 MPa, 0.1).
PenetrationMonotone ==
    LET P   == dendrite.animatedPressure
        R   == dendrite.animatedRoughness
        pen == dendrite.dendritePenetration
    IN  P < DENDRITE_THRESHOLD_PRESSURE =>
          /\ pen = GrowthBelowThreshold(P, R)
          /\ \A r \in RoughnessGrid :
                /\ r >= R => GrowthBelowThreshold(P, r) >= pen
                /\ r <= R => GrowthBelowThreshold(P, r) <= pen
          /\ \A q \in {g \in PressureGrid : g < DENDRITE_THRESHOLD_PRESSURE} :
                /\ q >= P => GrowthBelowThreshold(q, R) <= pen
                /\ q <= P => GrowthBelowThreshold(q, R) >= pen
          /\ GrowthBelowThreshold(PRESSURE_MIN, ROUGHNESS_MAX)
                > GrowthBelowThreshold(PRESSURE_MIN, ROUGHNESS_MIN)

\* The frame at 2 MPa and roughness 5.0: full penetration
FullPenetration ==
    /\ dendrite.animatedPressure = PRESSURE_MIN
    /\ dendrite.animatedRoughness = ROUGHNESS_MAX
    /\ dendrite.dendritePenetration = F

\* C9: a frame whose eased pressure is at or above the dendrite threshold
\* leaves max(0, previous penetration - 0.02), so not zero from above 0.02;
\* and if the eased pressure stays at or above the threshold from some
\* frame on, the penetration is zero from some frame on.
PenetrationRecedes ==
    /\ [][ (dendriteAnimateSlow
              /\ dendrite'.animatedPressure >= DENDRITE_THRESHOLD_PRESSURE)
           => /\ dendrite'.dendritePenetration
                    = Max(0, dendrite.dendritePenetration - RECEDE)
              /\ dendrite.dendritePenetration > RECEDE
                    => dendrite'.dendritePenetration > 0 ]_vars
    /\ <>[](dendrite.animatedPressure >= DENDRITE_THRESHOLD_PRESSURE)
          => <>[](dendrite.dendritePenetration = 0)

\* Above the threshold with a last remainder of penetration, under 0.02
LastRemainderReceding ==
    /\ dendrite.animatedPressure >= DENDRITE_THRESHOLD_PRESSURE
    /\ dendrite.dendritePenetration > 0
    /\ dendrite.dendritePenetration < RECEDE

----------------------------------------------------------------------------
(* Properties of the hit-testing distance *)

\* C10: the distance of findEdgeAtPosition is the distance to the source
\* endpoint when the projection parameter is below 0 (or the segment has no
\* length), to the target endpoint when it is above 1, in both cases the
\* nearer endpoint, and the perpendicular distance to the line otherwise;
\* for (0,0)-(10,0) and the pointer (15,5) the nearest point is (10,0) and
\* the squared distance 50.
SegmentDistance ==
    probe.measured =>
        LET px == probe.p[1]
            py == probe.p[2]
            sx == probe.s[1]
            sy == probe.s[2]
            tx == probe.t[1]
            ty == probe.t[2]
            dot   == (px - sx) * (tx - sx) + (py - sy) * (ty - sy)
            lenSq == (tx - sx) * (tx - sx) + (ty - sy) * (ty - sy)
            cross == (px - sx) * (ty - sy) - (py - sy) * (tx - sx)
            toS   == DistSq(px, py, sx, sy)
            toT   == DistSq(px, py, tx, ty)
        IN  /\ (lenSq = 0 \/ dot < 0) =>
                  /\ probe.distSq = [num |-> toS, den |-> 1]
                  /\ toS <= toT
            /\ (lenSq # 0 /\ dot > lenSq) =>
                  /\ probe.distSq = [num |-> toT, den |-> 1]
                  /\ toT <= toS
            /\ (lenSq # 0 /\ dot >= 0 /\ dot <= lenSq) =>
                  probe.distSq = [num |-> cross * cross * lenSq, den |-> lenSq * lenSq]
            /\ (probe.p = <<15, 5>> /\ probe.s = <<0, 0>> /\ probe.t = <<10, 0>>) =>
                  /\ probe.nearest = [x |-> 10, y |-> 0, den |-> 1]
                  /\ probe.distSq = [num |-> 50, den |-> 1]

\* The pointer (15,5) measured against the segment (0,0)-(10,0)
ProbeBeyondTarget ==
    /\ probe.measured
    /\ probe.p = <<15, 5>> /\ probe.s = <<0, 0>> /\ probe.t = <<10, 0>>
    /\ probe.distSq.num = 50

----------------------------------------------------------------------------
(* C11: hit-testing returns the topmost node within the hover radius, else *)
(* the nearest edge under the threshold                                    *)

\* a / b < c / d for a, c >= 0 and b, d > 0, by continued fractions
RECURSIVE FracLess(_, _, _, _)
FracLess(a, b, c, d) ==
    LET qa == a \div b
        qc == c \div d
        ra == a % b
        rc == c % d
    IN  IF qa # qc THEN qa < qc
        ELSE IF rc = 0 THEN FALSE
        ELSE IF ra = 0 THEN TRUE
        ELSE FracLess(d, rc, b, ra)

\* The squared point-to-segment distance from (px, py) to the edge e as
\* <<numerator, denominator>>, for an edge under the threshold
EdgeDistSq(ns, e, px, py) ==
    LET s == NodeAt(ns, e.source)
        t == NodeAt(ns, e.target)
        n == NearestOnSegment(px, py, s.x, s.y, t.x, t.y)
        cross == (px - s.x) * (t.y - s.y) - (py - s.y) * (t.x - s.x)
    IN  IF n.den = 1 THEN <<DistSq(px, py, n.x, n.y), 1>>
        ELSE <<cross * cross, n.den>>

\* What C11 expects of a hit-test at pt under the transform tr: node and
\* edge are the results
HitTestExpected(tr, ns, es, pt, node, edge) ==
    LET canvasPos == screenToCanvas(tr, pt[1], pt[2])
        nodeHits  == {k \in 1..Len(ns) :
                         WithinScaled(DistSq(canvasPos.x, canvasPos.y, ns[k].x, ns[k].y),
                                      HOVER_RADIUS, tr)}
        edgeHits  == {k \in 1..Len(es) :
                         EdgeUnderThreshold(tr, ns, es[k], canvasPos.x, canvasPos.y)}
        d(k)      == EdgeDistSq(ns, es[k], canvasPos.x, canvasPos.y)
    IN  IF nodeHits # {}
        THEN /\ node # Null
             /\ \A k \in nodeHits : ns[k].id <= node
             /\ \E k \in nodeHits : ns[k].id = node
        ELSE /\ node = Null
             /\ IF edgeHits = {} THEN edge = Null
                ELSE /\ edge \in edgeHits
                     /\ \A k \in edgeHits : ~FracLess(d(k)[1], d(k)[2], d(edge)[1], d(edge)[2])

\* C11: every mouse move leaves in hoveredNode the topmost node within
\* HOVER_RADIUS / scale of the pointer if there is one, and otherwise leaves
\* in hoveredEdge an edge under the threshold 8 / scale than which no other
\* edge under the threshold is strictly closer to the pointer.
HitTestNearest ==
    [][\A pt \in MousePoints :
          handleMouseMoveAt(pt) =>
              HitTestExpected(transform, nodes, edges, pt, hoveredNode', hoveredEdge')]_vars

----------------------------------------------------------------------------
(* C12: t(key) returns the current language's string, else the fallback    *)
(* language's string, else the raw key                                     *)

\* The path of key leads to a string in the translation file of language
Resolves(translations, key, language) == key \in translations[language].strs

\* The path of key or a prefix of it is absent from the file of language
\* (no value at all, rather than an object where a string was asked for)
Missing(translations, key, language) ==
    /\ key \notin translations[language].strs
    /\ key \notin translations[language].objs

\* C12: after a call t(key), the result is the current language's string
\* when the key resolves there; when the key is missing from the current
\* language (an intermediate or the final segment absent), the result is the
\* fallback language's string if the key resolves there, and the raw key if
\* the key is missing there too.
LookupFallsBack ==
    i18n.called =>
        LET tr   == i18n.translations
            key  == i18n.key
            lang == i18n.currentLanguage
        IN  /\ Resolves(tr, key, lang) =>
                   i18n.result = ValueResult(tr[lang], lang, key)
            /\ Missing(tr, key, lang) /\ Resolves(tr, key, fallbackLanguage) =>
                   i18n.result = ValueResult(tr[fallbackLanguage], fallbackLanguage, key)
            /\ Missing(tr, key, lang) /\ Missing(tr, key, fallbackLanguage) =>
                   i18n.result = KeyResult(key)

----------------------------------------------------------------------------
(* C13: destroy() cancels the outstanding frame callback and removes the   *)
(* wrapper                                                                 *)

\* C13: once destroy() was called on a widget, no frame callback of that
\* widget is left in the browser's list, its wrapper is out of the container,
\* and no step runs an update/render of it or requests a frame for it.
DestroyStopsFrames ==
    [][\A w \in Widgets :
          loops'[w].destroyed =>
              /\ loops'[w].pending = {}
              /\ ~loops'[w].attached
              /\ loops'[w].frames = loops[w].frames
              /\ loops'[w].requests = loops[w].requests]_vars

\* Both widgets were destroyed, each after frames of its loop had run, and
\* the graph's loop ran on after the simulation was destroyed
DestroyedAfterFrames ==
    /\ \A w \in Widgets : loops[w].destroyed /\ loops[w].frames >= 2
    /\ loops["fraud"].animationId > loops["dendrite"].animationId + 1

----------------------------------------------------------------------------
(* C14: nodes are created once and kept until destroy()                    *)

\* Identity, rest position, risk class and cluster of every node of a list
NodeFacts(ns) ==
    {[id |-> ns[k].id, baseX |-> ns[k].x, baseY |-> ns[k].y,
      isHighRisk |-> ns[k].isHighRisk, clusterId |-> ns[k].clusterId] : k \in 1..Len(ns)}

\* C14: once generateNetworkData has finished, no step of the running widget
\* (destroy() is not among its steps) removes or replaces a node: the ids,
\* rest positions, risk classes and cluster memberships of the node list
\* stay as they are.
NodesKeptUntilDestroy ==
    [][pc = "done" => NodeFacts(nodes') = NodeFacts(nodes)]_vars

----------------------------------------------------------------------------
(* C15: the void fraction of a frame                                       *)

\* C15: the void fraction is 0 when the eased pressure is at or above the
\* void threshold; below it, it is (1 - pressureNorm / voidThreshold) *
\* (0.3 + 0.5 * roughnessNorm) = (8 - P) * (2.84 + R) * 5 / 29.4 for P in MPa
\* and R in um (to half a unit of F), which over the slider ranges does not
\* grow with the pressure nor fall with the roughness; and it lies in [0, 0.8].
VoidFractionLaw ==
    LET P    == dendrite.animatedPressure
        R    == dendrite.animatedRoughness
        void == dendrite.voidFraction
    IN  /\ P >= VOID_THRESHOLD_PRESSURE => void = 0
        /\ P < VOID_THRESHOLD_PRESSURE =>
              /\ 2 * Abs(void * 294 - 5 * (VOID_THRESHOLD_PRESSURE - P) * (284 + R)) <= 294
              /\ \A r \in RoughnessGrid :
                    /\ r >= R => VoidBelowThreshold(P, r) >= void
                    /\ r <= R => VoidBelowThreshold(P, r) <= void
              /\ \A q \in {g \in PressureGrid : g < VOID_THRESHOLD_PRESSURE} :
                    /\ q >= P => VoidBelowThreshold(q, R) <= void
                    /\ q <= P => VoidBelowThreshold(q, R) >= void
        /\ 0 <= void
        /\ void <= (8 * F) \div 10
        /\ PRESSURE_MIN <= P /\ P <= PRESSURE_MAX
        /\ ROUGHNESS_MIN <= R /\ R <= ROUGHNESS_MAX

\* A frame at 2 MPa and roughness 5.0 left the largest void fraction, 0.8
LargestVoid ==
    /\ dendrite.lastFrameTime > 0
    /\ dendrite.animatedPressure = PRESSURE_MIN
    /\ dendrite.animatedRoughness = ROUGHNESS_MAX
    /\ dendrite.voidFraction = (8 * F) \div 10

----------------------------------------------------------------------------
(* C16: the risk level of a frame                                          *)

\* C16: riskLevel is max(voidFraction, dendritePenetration) * 100 (here in
\* hundredths of a point), with dendritePenetration in [0, 1] and riskLevel
\* in [0, 100].
RiskIsMax ==
    LET void == dendrite.voidFraction
        pen  == dendrite.dendritePenetration
        risk == dendrite.riskLevel
    IN  /\ risk * F >= void * 100 * 100
        /\ risk * F >= pen * 100 * 100
        /\ risk * F = void * 100 * 100 \/ risk * F = pen * 100 * 100
        /\ 0 <= pen /\ pen <= F
        /\ 0 <= risk /\ risk <= 100 * 100

\* A frame whose void fraction exceeds its penetration, both above zero
RiskFromVoid ==
    /\ dendrite.lastFrameTime > 0
    /\ dendrite.dendritePenetration > 0
    /\ dendrite.voidFraction > dendrite.dendritePenetration
    /\ dendrite.riskLevel * F = dendrite.voidFraction * 100 * 100

----------------------------------------------------------------------------
(* C17: the nucleation point of the dendrite                               *)

\* C17: the index drawDendrite chose is a valid index of interfacePoints;
\* when some density of the map reaches 0.4 it is the first index of the
\* greatest density, and when none does it is floor(n / 2) for the n
\* interface samples.
NucleationAtHotspot ==
    dendrite.nucleation # Null =>
        LET map == dendrite.currentDensityMap
            n   == Len(dendrite.interfacePoints)
            idx == dendrite.nucleation
            hot == \E k \in 1..Len(map) : map[k] * 10 >= 4 * F
        IN  /\ 0 <= idx /\ idx < n
            /\ hot => \A k \in 1..Len(map) :
                          /\ map[k] <= map[idx + 1]
                          /\ k <= idx => map[k] < map[idx + 1]
            /\ ~hot => idx = n \div 2

\* The greatest density, 0.7, stands at two samples after a lesser first
\* one, and the dendrite was drawn at the first of the two
HotspotTie ==
    /\ Len(dendrite.currentDensityMap) = 4
    /\ dendrite.currentDensityMap[1] = 4 * (F \div 10)
    /\ dendrite.currentDensityMap[2] = 7 * (F \div 10)
    /\ dendrite.currentDensityMap[4] = 7 * (F \div 10)
    /\ dendrite.nucleation = 1

----------------------------------------------------------------------------
(* C18: the interface geometry follows the canvas width                    *)

\* C18: interfacePoints has floor(width / 4) + 1 samples for the current
\* width and lithiumBottom has as many, whatever resizes, roughness changes
\* and frames came before; and every frame leaves currentDensityMap with one
\* entry per interface sample.
GeometryResampled ==
    /\ [](/\ Len(dendrite.interfacePoints) = dendrite.width \div 4 + 1
          /\ Len(dendrite.lithiumBottom) = Len(dendrite.interfacePoints))
    /\ [][dendrite'.lastFrameTime # dendrite.lastFrameTime =>
             Len(dendrite'.currentDensityMap) = Len(dendrite'.interfacePoints)]_vars

\* A frame on a canvas resized to 18 pixels, after the roughness was raised
\* to 5.0: five samples, five densities
ResampledAfterResize ==
    /\ dendrite.width = 18
    /\ dendrite.roughness = ROUGHNESS_MAX
    /\ dendrite.lastFrameTime > 0
    /\ Len(dendrite.interfacePoints) = 5
    /\ Len(dendrite.currentDensityMap) = 5

----------------------------------------------------------------------------
(* C19: the idle motion runs on every frame and keeps velocities bounded   *)

\* C19: every frame, whatever the camera and hover state, moves the node by
\* its velocity times IDLE_SPEED, and leaves |vx| <= 1.5 and |vy| <= 1.5 for
\* every noise drawn.
VelocityBounded ==
    [][time' = time + 1 =>
          /\ idleNode'.x = idleNode.x + RoundDiv(idleNode.vx * IDLE_SPEED, 100)
          /\ idleNode'.y = idleNode.y + RoundDiv(idleNode.vy * IDLE_SPEED, 100)
          /\ Abs(idleNode'.vx) <= maxVel
          /\ Abs(idleNode'.vy) <= maxVel]_vars

\* Two frames on, zoomed in on a cluster with a node hovered, the node's
\* velocity stands at the clamp
ClampedWhileZoomed ==
    /\ time >= 2
    /\ transform.focusedCluster # Null
    /\ hoveredNode # Null
    /\ idleNode.vx = 0 - maxVel
    /\ idleNode.x < idleNode.baseX + 20 * Q

----------------------------------------------------------------------------
(* C20: generation ends, with every cluster and no more than TOTAL_NODES   *)

\* C20: on every canvas size and for every draw, generateNetworkData once
\* begun reaches its end, and at its end there are exactly MULE_CLUSTERS
\* clusters and at most TOTAL_NODES nodes, ids counting up from 0; no step
\* of it, a rejected candidate included, takes away a node already made.
GenerationCompletes ==
    /\ (pc \notin {"idle", "done"}) ~> (pc = "done")
    /\ [](pc = "done" =>
            /\ Len(muleClusters) = GenLimits.muleClusters
            /\ Len(nodes) <= GenLimits.totalNodes
            /\ \A k \in 1..Len(nodes) : nodes[k].id = k - 1)
    /\ [][\/ nodes' = <<>>
          \/ /\ Len(nodes') >= Len(nodes)
             /\ SubSeq(nodes', 1, Len(nodes)) = nodes]_vars

\* Generation ended on the empty canvas with every grid candidate rejected:
\* only cluster nodes, fewer than TOTAL_NODES
DegradedOnEmptyCanvas ==
    /\ pc = "done"
    /\ width = 0 /\ height = 0
    /\ Len(muleClusters) = GenLimits.muleClusters
    /\ Len(nodes) < GenLimits.totalNodes
    /\ lowRiskNodesOf(nodes) # <<>>


----------------------------------------------------------------------------
(* C21: the diameter edge of every cluster                                 *)

\* The squared distance between members a and b (ids) of a cluster
MemberDistSq(a, b) ==
    DistSq(NodeAt(nodes, a).x, NodeAt(nodes, a).y, NodeAt(nodes, b).x, NodeAt(nodes, b).y)

\* The greatest squared distance between two members of the cluster cn
GreatestDistSq(cn) ==
    LET ds == {MemberDistSq(cn[i], cn[j]) : i \in 1..Len(cn), j \in 1..Len(cn)}
    IN  CHOOSE d \in ds : \A e \in ds : e <= d

\* C21: when generateNetworkData has returned, every cluster with two
\* members apart from each other has a pair of members at the cluster's
\* greatest distance joined by an edge that is high-risk and carries the
\* cluster's id.
DiameterJoined ==
    pc = "done" =>
        \A c \in 1..Len(muleClusters) :
            LET cn == muleClusters[c]
            IN  (Len(cn) >= 2 /\ GreatestDistSq(cn) > 0) =>
                    \E i \in 1..Len(cn) : \E j \in 1..Len(cn) : \E k \in 1..Len(edges) :
                        /\ MemberDistSq(cn[i], cn[j]) = GreatestDistSq(cn)
                        /\ {edges[k].source, edges[k].target} = {cn[i], cn[j]}
                        /\ edges[k].isHighRisk
                        /\ edges[k].clusterId = c - 1

\* Generation has returned and the last edge pushed is a diameter edge: the
\* farthest pair was not joined before
DiameterEdgePushed ==
    /\ pc = "done"
    /\ Len(muleClusters) >= 1
    /\ Len(edges) >= 1
    /\ edges[Len(edges)].atoRisk \in AtoDiameter
    /\ edges[Len(edges)].isHighRisk


----------------------------------------------------------------------------
(* C25: the digital-twin timeline alternates pump and motor                *)

----------------------------------------------------------------------------
(* C22: the priority of detectLanguage                                     *)

\* The language of a country as the code's table has it, "null" for none
CountryLanguage(code) ==
    IF code = "MX" THEN "es" ELSE IF code = "DE" THEN "de"
    ELSE IF code = "US" THEN "en" ELSE "null"

\* C22: what detectLanguage returned is the saved preference if supported;
\* else the language of the geolocated country if the lookup gave a country
\* and its language is supported; else the browser language if supported;
\* else "en".  A failed lookup stops nothing, and the result is supported.
DetectionPriority ==
    locale.detectionComplete =>
        /\ locale.detected \in supportedLanguages
        /\ locale.currentLanguage \in supportedLanguages
        /\ locale.detected =
              (IF locale.saved \in supportedLanguages THEN locale.saved
               ELSE IF locale.geo \in Countries
                       /\ CountryLanguage(locale.geo) \in supportedLanguages
                    THEN CountryLanguage(locale.geo)
               ELSE IF locale.browser[1] \in supportedLanguages THEN locale.browser[1]
               ELSE "en")
        /\ locale.saved \notin supportedLanguages => locale.lookedUp

\* The lookup failed under an unsupported saved preference, and init went on
\* with the browser's language
DetectedAfterFailedLookup ==
    /\ locale.at = "ready"
    /\ locale.saved = "xx"
    /\ locale.geo = "failed"
    /\ locale.browser = <<"es", "MX">>
    /\ locale.detected = "es"


----------------------------------------------------------------------------
(* C26: changeLanguage with an unsupported language                        *)

\* C26: a changeLanguage call with an unsupported language changes nothing:
\* currentLanguage, the stored preference, the loaded files, the calls in
\* flight, the page and the last event stay as they were; and once init has
\* completed currentLanguage is a supported language.
UnsupportedIsNoOp ==
    /\ [](locale.at = "ready" => locale.currentLanguage \in supportedLanguages)
    /\ [][(locale'.requests = locale.requests + 1
              /\ locale'.requested \notin supportedLanguages)
          => locale' = [locale EXCEPT !.requested = locale'.requested,
                                      !.requests = locale.requests + 1]]_vars

\* An unsupported language was asked for after a change to German, and the
\* page is still in German
UnsupportedAfterGerman ==
    /\ locale.requested = "xx"
    /\ locale.requests >= 2
    /\ locale.currentLanguage = "de"
    /\ locale.stored = "de"
    /\ locale.page = "de"
    /\ locale.event.language = "de"


----------------------------------------------------------------------------
(* C28: changeLanguage calls whose imports interleave                      *)

\* C28: every languageChanged event carries as detail.language the value
\* this.currentLanguage has at its dispatch.
EventCarriesCurrentLanguage ==
    locale.event # NoEvent => locale.event.language = locale.event.current


----------------------------------------------------------------------------
(* C30: the saved preference comes back at the next detection              *)

\* C30: a changeLanguage call with a supported language L leaves L stored,
\* and with L stored detectLanguage returns L without the geolocation
\* lookup, whatever the lookup would have given and whatever the browser's
\* language; so it is at the next visit until another call stores another.
PreferenceComesBack ==
    /\ [][(locale'.requests = locale.requests + 1
              /\ locale'.requested \in supportedLanguages)
          => /\ locale'.stored = locale'.requested
             /\ \A outcome \in GeoOutcomes : \A browser \in BrowserLanguages :
                   detectLanguage(locale'.stored, outcome, browser)
                       = [language |-> locale'.requested, lookedUp |-> FALSE]]_vars
    /\ [](locale.saved \in supportedLanguages /\ locale.at \in {"load", "ready"}
             => /\ locale.detected = locale.saved
                /\ ~locale.lookedUp)
    /\ [][(locale.at = "new" /\ locale'.at # "new" /\ locale.stored \in supportedLanguages)
          => /\ locale'.currentLanguage = locale.stored
             /\ locale'.at = "load"]_vars

\* A second visit has begun in German, which only a changeLanguage call can
\* have stored, with no lookup made
GermanAtNextVisit ==
    /\ locale.at = "load"
    /\ locale.requests = 0
    /\ locale.stored = "de"
    /\ locale.currentLanguage = "de"
    /\ ~locale.lookedUp


----------------------------------------------------------------------------
(* C29: moving onto a high-risk edge hovers it, whatever was hovered before *)

\* The edges with a known atoRisk under the threshold 8 / scale of pt
RiskEdgesUnder(tr, ns, es, pt) ==
    LET canvasPos == screenToCanvas(tr, pt[1], pt[2])
    IN  {k \in 1..Len(es) :
            /\ es[k].atoRisk # Null
            /\ EdgeUnderThreshold(tr, ns, es[k], canvasPos.x, canvasPos.y)}

\* No node lies within HOVER_RADIUS / scale of pt
NoNodeWithin(tr, ns, pt) ==
    LET canvasPos == screenToCanvas(tr, pt[1], pt[2])
    IN  \A k \in 1..Len(ns) :
            ~WithinScaled(DistSq(canvasPos.x, canvasPos.y, ns[k].x, ns[k].y),
                          HOVER_RADIUS, tr)

\* C29: every mouse move to a position with no node within the hover radius
\* and a high-risk edge under the edge threshold leaves such an edge in
\* hoveredEdge and null in hoveredNode, whatever was hovered before the move;
\* hoveredNode and hoveredEdge are never both set, and hoveredEdge is only
\* ever an edge whose atoRisk is known.
HoverMovesToEdge ==
    /\ [][\A pt \in MousePoints :
            (/\ handleMouseMoveAt(pt)
             /\ NoNodeWithin(transform, nodes, pt)
             /\ RiskEdgesUnder(transform, nodes, edges, pt) # {})
            => /\ hoveredNode' = Null
               /\ hoveredEdge' \in RiskEdgesUnder(transform, nodes, edges, pt)]_vars
    /\ [](hoveredNode = Null \/ hoveredEdge = Null)
    /\ [][\A pt \in MousePoints :
            (handleMouseMoveAt(pt) /\ hoveredEdge' # Null)
            => edges[hoveredEdge'].atoRisk # Null]_vars


----------------------------------------------------------------------------
(* C27: after generation, ids are indices and edges join two distinct nodes *)

\* C27: whenever generateNetworkData has returned, at init or at a resize,
\* every node's id is its index in this.nodes, and every edge's source and
\* target are indices of this.nodes and differ from each other.
IdsAndEdgesValid ==
    pc = "done" =>
        /\ \A k \in 1..Len(nodes) : nodes[k].id = k - 1
        /\ \A k \in 1..Len(edges) :
              /\ edges[k].source \in 0..(Len(nodes) - 1)
              /\ edges[k].target \in 0..(Len(nodes) - 1)
              /\ edges[k].source # edges[k].target

\* The network generated again on the small canvas, which only a resize
\* gives, with edges of every phase
RegeneratedAtResize ==
    /\ pc = "done"
    /\ width = 100
    /\ \E k \in 1..Len(edges) : ~edges[k].isHighRisk
    /\ \E k \in 1..Len(edges) : nodes[edges[k].target + 1].isSatellite
                                   \/ nodes[edges[k].source + 1].isSatellite


----------------------------------------------------------------------------
(* C23: a tap retargets from where the camera is, and the transition ends  *)
(* on its target after ZOOM_DURATION of frames                              *)

\* The camera has come to its target
OnTarget(tr) ==
    /\ tr.scale = tr.targetScale
    /\ tr.x = tr.targetX
    /\ tr.y = tr.targetY

\* C23: a tap leaves the scale and the offset as they are, also when a
\* transition is in progress, and a tap that starts a transition starts it at
\* progress 0; from then on each frame adds its deltaTime to the progress,
\* keeps the targets and blends the scale and the offset from their current
\* values towards the targets by the eased progress, and the frame with
\* which the deltas since the tap total ZOOM_DURATION or more ends the
\* transition: isZooming is false with scale = targetScale, x = targetX and
\* y = targetY.  A transition not yet ended has progress below ZOOM_DURATION.
TransitionCompletes ==
    /\ [][(handleClick \/ handleTouchStart)
          => /\ transform'.scale = transform.scale
             /\ transform'.x = transform.x
             /\ transform'.y = transform.y
             /\ transform' # transform
                   => /\ transform'.isZooming
                      /\ transform'.zoomProgress = 0]_vars
    /\ [][(animate /\ transform.isZooming)
          => /\ \E deltaTime \in FrameDeltas :
                   /\ transform'.zoomProgress
                          = Min(transform.zoomProgress + deltaTime, ZOOM_DURATION)
                   /\ transform'.isZooming
                          <=> transform.zoomProgress + deltaTime < ZOOM_DURATION
             /\ transform'.targetScale = transform.targetScale
             /\ transform'.targetX = transform.targetX
             /\ transform'.targetY = transform.targetY
             /\ LET t == easeInOutCubic(transform'.zoomProgress, ZOOM_DURATION)
                IN  /\ transform'.scale = lerp(transform.scale, transform.targetScale, t)
                    /\ transform'.x = lerp(transform.x, transform.targetX, t)
                    /\ transform'.y = lerp(transform.y, transform.targetY, t)
             /\ ~transform'.isZooming => OnTarget(transform')]_vars
    /\ [](transform.isZooming => transform.zoomProgress < ZOOM_DURATION)

\* A zoom to a cluster started from a scale between 1 and ZOOM_LEVEL, in the
\* middle of an earlier transition, has ended on its target
RetargetedZoomEnded ==
    /\ pc = "done"
    /\ ~transform.isZooming
    /\ zoomFrom # U /\ zoomFrom # ZOOM_LEVEL * U
    /\ transform.targetScale = ZOOM_LEVEL * U
    /\ transform.targetX # 0
    /\ transform.zoomProgress = ZOOM_DURATION
    /\ OnTarget(transform)


----------------------------------------------------------------------------
(* C24: the eased transition follows the sliders and ends on their values  *)

\* v lies between a and b, whichever is the greater
Between(a, v, b) == (a <= v /\ v <= b) \/ (b <= v /\ v <= a)

\* C24: whatever the slider changes, while a transition is in progress its
\* targets are the slider values and the eased pressure and roughness lie
\* between the transition's start and its target; every slider change
\* starts the transition anew, from the eased values as they are, and the
\* frame that comes TRANSITION_DURATION or more after the last change ends
\* it: with no transition in progress the eased values are the slider values.
EasedTransition ==
    /\ [](dendrite.isTransitioning
             => /\ dendrite.transitionTargetPressure = dendrite.pressure
                /\ dendrite.transitionTargetRoughness = dendrite.roughness
                /\ Between(dendrite.transitionStartPressure, dendrite.animatedPressure,
                           dendrite.transitionTargetPressure)
                /\ Between(dendrite.transitionStartRoughness, dendrite.animatedRoughness,
                           dendrite.transitionTargetRoughness)
                /\ dendrite.elapsed < TRANSITION_DURATION)
    /\ [](~dendrite.isTransitioning
             => /\ dendrite.animatedPressure = dendrite.pressure
                /\ dendrite.animatedRoughness = dendrite.roughness)
    /\ [][(setTargetPressure \/ setTargetRoughness)
          => /\ dendrite'.isTransitioning
             /\ dendrite'.elapsed = 0
             /\ dendrite'.animatedPressure = dendrite.animatedPressure
             /\ dendrite'.animatedRoughness = dendrite.animatedRoughness
             /\ dendrite'.transitionStartPressure = dendrite.animatedPressure
             /\ dendrite'.transitionStartRoughness = dendrite.animatedRoughness]_vars
    /\ [][(dendriteAnimate /\ dendrite.isTransitioning)
          => /\ dendrite'.pressure = dendrite.pressure
             /\ dendrite'.roughness = dendrite.roughness
             /\ \E deltaTime \in DendriteFrameDeltas :
                   /\ dendrite'.elapsed
                          = Min(dendrite.elapsed + deltaTime, TRANSITION_DURATION)
                   /\ dendrite'.isTransitioning
                          <=> dendrite.elapsed + deltaTime < TRANSITION_DURATION]_vars

\* A transition begun in the middle of another, from eased values that are
\* no slider value, has ended on the slider values
RetargetedTransitionEnded ==
    /\ ~dendrite.isTransitioning
    /\ dendrite.elapsed = TRANSITION_DURATION
    /\ dendrite.transitionStartPressure \notin PressureValues \cup {PRESSURE_DEFAULT}
    /\ dendrite.roughness # ROUGHNESS_DEFAULT
    /\ dendrite.transitionStartRoughness # ROUGHNESS_DEFAULT
    /\ dendrite.animatedPressure = dendrite.pressure
    /\ dendrite.animatedRoughness = dendrite.roughness

=============================================================================
